---------------------------- MODULE Spec2Model ----------------------------
(***************************************************************************)
(* A model of the ZKTeco device simulator (zk_simulator.py): the device    *)
(* model (users, templates, attendance, counters), the upload scratch, the *)
(* enrollment context, the request loop of run() and the enrollment        *)
(* threads it starts.  Payloads are byte sequences (0..255) decoded with   *)
(* the struct layouts of the source.                                       *)
(***************************************************************************)
EXTENDS Integers, Sequences, FiniteSets, TLC

VARIABLES
    users,               \* self.users: list of user tuples, in list order
    templates,           \* self.templates: list of (uid, fid, valid, blob)
    attendance_records,  \* self.attendance_records
    users_count,         \* self.users_count
    fingers_count,       \* self.fingers_count
    records_count,       \* self.records_count
    session_id,          \* self.session_id
    is_authenticated,    \* self.is_authenticated
    enrollment_mode,     \* self.enrollment_mode
    enrollment_uid,      \* self.enrollment_uid
    enrollment_fid,      \* self.enrollment_fid
    data_buffer,         \* self.data_buffer
    conn,                \* run(): "listening" (in accept) or "open" (in the recv loop)
    inbox,               \* frames the client has sent that no recv has returned yet
    mainpc,              \* run(): where the request loop stands
    request,             \* run(): the frame the last recv of the request loop returned
    response,            \* run(): the response handle_packet built for it
    start_enrollment,    \* run(): the flag handle_packet returned with it
    mlocal,              \* the request handler's locals while it rewrites self.templates
    tasks,               \* the enrollment threads: one record per thread slot
    unacked,             \* the client: events it was pushed and has not acknowledged yet
    password,            \* self.password (constructor parameter)
    use_tcp,             \* self.use_tcp (constructor parameter)
    wrapper,             \* a PyZKWrapper object, the call in progress on it and the
                         \* calls it has made on its device connection
    backlog,             \* sock.listen(5): a connection no accept has returned yet,
                         \* and the frames its client has written on it
    stream               \* TCP: the bytes the client has written that no recv has
                         \* returned yet

vars == <<users, templates, attendance_records, users_count, fingers_count,
          records_count, session_id, is_authenticated, enrollment_mode,
          enrollment_uid, enrollment_fid, data_buffer, conn, inbox, mainpc,
          request, response, start_enrollment, mlocal, tasks, unacked, password,
          use_tcp, wrapper, backlog, stream>>

netvars == << backlog, stream >>

----------------------------------------------------------------------------
(* Protocol constants *)

USHRT_MAX == 65535
CMD_CONNECT == 1000
CMD_EXIT == 1001
CMD_ENABLEDEVICE == 1002
CMD_DISABLEDEVICE == 1003
CMD_RESTART == 1004
CMD_POWEROFF == 1005
CMD_GET_TIME == 201
CMD_SET_TIME == 202
CMD_GET_VERSION == 1100
CMD_AUTH == 1102
CMD_OPTIONS_RRQ == 11
CMD_OPTIONS_WRQ == 12
CMD_FREE_DATA == 1502
CMD_PREPARE_BUFFER == 1503
CMD_STARTVERIFY == 60
CMD_GET_PINWIDTH == 69
CMD_UNLOCK == 31
CMD_TESTVOICE == 1017
CMD_REFRESHDATA == 1013
CMD_GET_USERTEMP == 88
CMD_READ_BUFFER == 1504
CMD_USER_WRQ == 8
CMD_USERTEMP_RRQ == 9
CMD_DB_RRQ == 7
CMD_ATTLOG_RRQ == 13
CMD_DELETE_USER == 18
CMD_DELETE_USERTEMP == 19
CMD_GET_FREE_SIZES == 50
CMD_STARTENROLL == 61
CMD_CANCELCAPTURE == 62
CMD_SAVE_USERTEMPS == 110
CMD_REG_EVENT == 500
CMD_PREPARE_DATA == 1500
CMD_DATA == 1501
CMD_ACK_OK == 2000
CMD_ACK_ERROR == 2001
CMD_ACK_UNAUTH == 2005
MACHINE_PREPARE_DATA_1 == 20560
MACHINE_PREPARE_DATA_2 == 32130
FCT_USER == 5
FCT_ATTLOG == 1
FCT_FINGERTMP == 2

----------------------------------------------------------------------------
(* Bytes: struct.unpack / struct.pack and the bytes methods the handlers use *)

Min(a, b) == IF a < b THEN a ELSE b

Zeros(n) == [i \in 1..n |-> 0]

\* Python's s[a:b] for 0 <= a, 0 <= b (both clamped to the length)
Slice(s, a, b) ==
    LET lo == Min(a, Len(s))
        hi == Min(b, Len(s))
    IN  IF hi <= lo THEN << >> ELSE [i \in 1..(hi - lo) |-> s[lo + i]]

\* Python's s[a:]
From(s, a) == Slice(s, a, Len(s))

\* '<H' and '<I' at byte offset off (0-based)
U16(s, off) == s[off + 1] + 256 * s[off + 2]
U32(s, off) == s[off + 1] + 256 * s[off + 2] + 65536 * s[off + 3] + 16777216 * s[off + 4]

\* 'b': a signed byte
S8(x) == IF x >= 128 THEN x - 256 ELSE x

Pack16(v) == << v % 256, (v \div 256) % 256 >>
Pack32(v) == << v % 256, (v \div 256) % 256, (v \div 65536) % 256, (v \div 16777216) % 256 >>

\* bytes.rstrip(b'\x00'): s up to its last non-zero byte
RStrip0(s) ==
    LET nz == { i \in 1..Len(s) : s[i] # 0 }
    IN  IF nz = {} THEN << >> ELSE SubSeq(s, 1, CHOOSE i \in nz : \A j \in nz : j <= i)

\* bytes.ljust(n, b'\x00')
Ljust(s, n) == IF Len(s) >= n THEN s ELSE s \o Zeros(n - Len(s))

\* bytes.isdigit(): non-empty and every byte an ASCII digit
IsDigit(s) == Len(s) > 0 /\ \A i \in 1..Len(s) : s[i] \in 48..57

RECURSIVE ParseInt(_)
\* int(s) for a string of ASCII digits
ParseInt(s) ==
    IF Len(s) = 0 THEN 0
    ELSE 10 * ParseInt(SubSeq(s, 1, Len(s) - 1)) + (s[Len(s)] - 48)

RECURSIVE Str(_)
\* str(n).encode() for n >= 0
Str(n) == IF n < 10 THEN << 48 + n >> ELSE Str(n \div 10) \o << 48 + (n % 10) >>


----------------------------------------------------------------------------
(* Device model: records, codecs and list operations *)

\* A user tuple (uid, privilege, password, name, card, group_id, user_id)
User(uid, privilege, pw, name, card, group_id, user_id) ==
    [uid |-> uid, privilege |-> privilege, password |-> pw, name |-> name,
     card |-> card, group_id |-> group_id, user_id |-> user_id]

\* A template tuple (uid, fid, valid, template_data)
Template(uid, fid, valid, tmpl) == [uid |-> uid, fid |-> fid, valid |-> valid, tmpl |-> tmpl]

\* b'Admin', b'User001', b'User002', b'12345'
NameAdmin == << 65, 100, 109, 105, 110 >>
NameUser001 == << 85, 115, 101, 114, 48, 48, 49 >>
NameUser002 == << 85, 115, 101, 114, 48, 48, 50 >>
Pw12345 == << 49, 50, 51, 52, 53 >>

\* self.users as __init__ leaves it
SeedUsers ==
    << User(1, 0, << >>, NameAdmin, 0, 0, 1),
       User(2, 0, Pw12345, NameUser001, 123456, 0, 2),
       User(3, 0, << >>, NameUser002, 234567, 0, 3) >>

\* struct.unpack('<HB5s8sIxBHI', data[:28]) and the rstrips that follow it
Unpack28(d) ==
    User(U16(d, 0), d[3], RStrip0(Slice(d, 3, 8)), RStrip0(Slice(d, 8, 16)),
         U32(d, 16), d[22], U32(d, 24))

\* struct.unpack('<HB8s24sIx7sx24s', data[:72]), the rstrips, and the tuple the
\* 72-byte branches build: group 0, user_id int(user_id) if it is digits, else uid
Unpack72(d) ==
    LET uid == U16(d, 0)
        user_id_str == RStrip0(Slice(d, 48, 72))
    IN  User(uid, d[3], RStrip0(Slice(d, 3, 11)), RStrip0(Slice(d, 11, 35)),
             U32(d, 35), 0, IF IsDigit(user_id_str) THEN ParseInt(user_id_str) ELSE uid)

\* Faulty variant: the record is appended without looking for its uid
AppendUser(us, rec) == Append(us, rec)

\* Faulty variant: the old record is dropped and the new one goes to the end
MoveUserToEnd(us, rec) == Append(SelectSeq(us, LAMBDA u : u.uid # rec.uid), rec)

\* Faulty variant: the templates of a deleted user are kept
KeepUserTemplates(ts, uid) == ts

\* "Update or add user": replace every entry with that uid where it stands,
\* append when none matched
UpsertUser(us, rec) ==
    LET user_found == \E i \in 1..Len(us) : us[i].uid = rec.uid
        new_users == [i \in 1..Len(us) |-> IF us[i].uid = rec.uid THEN rec ELSE us[i]]
    IN  IF user_found THEN new_users ELSE Append(new_users, rec)

\* [u for u in self.users if u[0] != uid]
RemoveUser(us, uid) == SelectSeq(us, LAMBDA u : u.uid # uid)

\* [t for t in self.templates if t[0] != uid]
RemoveUserTemplates(ts, uid) == SelectSeq(ts, LAMBDA t : t.uid # uid)

\* [t for t in self.templates if not (t[0] == uid and t[1] == fid)]
RemoveTemplate(ts, uid, fid) == SelectSeq(ts, LAMBDA t : ~(t.uid = uid /\ t.fid = fid))

\* "Remove old template if exists", then "Add new template"
UpsertTemplate(ts, tmpl) == Append(RemoveTemplate(ts, tmpl.uid, tmpl.fid), tmpl)

\* One user entry of the 72-byte format '<HB8s24sIx7sx24s'
PackUser72(u) ==
    Pack16(u.uid) \o << u.privilege >>
        \o Slice(Ljust(u.password, 8), 0, 8)
        \o Ljust(Slice(u.name, 0, 24), 24)
        \o Pack32(u.card) \o << 0 >>
        \o Ljust(Slice(Str(u.group_id), 0, 7), 7) \o << 0 >>
        \o Ljust(Slice(Str(u.user_id), 0, 24), 24)

RECURSIVE Concat(_)
\* b''.join of a sequence of byte strings
Concat(ss) == IF Len(ss) = 0 THEN << >> ELSE Head(ss) \o Concat(Tail(ss))

\* The DATA payload of USERTEMP RRQ: total size, then the packed users in list order
UserListPayload(us) ==
    LET user_data == Concat([i \in 1..Len(us) |-> PackUser72(us[i])])
    IN  Pack32(Len(user_data)) \o user_data

\* struct.pack('<HHbb', size, uid, fid, valid) + tmpl raises struct.error when a
\* field is out of the range of its format
TemplatePackable(t) ==
    /\ Len(t.tmpl) + 6 \in 0..65535
    /\ t.uid \in 0..65535
    /\ t.fid \in -128..127
    /\ t.valid \in -128..127

PackTemplate(t) ==
    Pack16(Len(t.tmpl) + 6) \o Pack16(t.uid) \o << t.fid % 256, t.valid % 256 >> \o t.tmpl

\* The DATA payload of DB RRQ: total size, then the packed templates in list order
TemplateListPayload(ts) ==
    LET template_data == Concat([i \in 1..Len(ts) |-> PackTemplate(ts[i])])
    IN  Pack32(Len(template_data)) \o template_data

\* One 40-byte attendance entry '<H24sB4sB8s' of (user_id, timestamp, status, punch, uid)
PackAttendance(a) ==
    Pack16(a.uid) \o Ljust(Slice(Str(a.user_id), 0, 24), 24) \o << a.status >>
        \o a.timestamp \o << a.punch >> \o Zeros(8)

\* The DATA payload of ATTLOG RRQ
AttendanceListPayload(as) ==
    LET att_data == Concat([i \in 1..Len(as) |-> PackAttendance(as[i])])
    IN  Pack32(Len(att_data)) \o att_data

\* Device capacity
USERS_CAPACITY == 3000
FINGERS_CAPACITY == 10000
RECORDS_CAPACITY == 100000
INIT_FINGERS_COUNT == 5
INIT_RECORDS_COUNT == 150

\* struct.pack('20i', ...) + struct.pack('3i', 0, 0, 0): the GET FREE SIZES payload
\* (every field is between 0 and its capacity in the states the model reaches)
FreeSizesPayload(uc, fc, rc) ==
    LET fields == << 0, 0, 0, 0, uc, 0, fc, 0, rc, 0, 0, 0, 0, 0,
                     FINGERS_CAPACITY, USERS_CAPACITY, RECORDS_CAPACITY,
                     FINGERS_CAPACITY - fc, USERS_CAPACITY - uc, RECORDS_CAPACITY - rc,
                     0, 0, 0 >>
    IN  Concat([i \in 1..Len(fields) |-> Pack32(fields[i])])

----------------------------------------------------------------------------
(* Frames and responses *)

\* A packet of the TCP mode: the two magic words of its 8-byte top, and the
\* command, session id, reply id and payload of the inner packet.  Frame builds
\* one with the top create_tcp_top writes.
Frame(cmd, session, reply, data) ==
    [magic1 |-> MACHINE_PREPARE_DATA_1, magic2 |-> MACHINE_PREPARE_DATA_2,
     cmd |-> cmd, session |-> session, reply |-> reply, data |-> data]

\* Frame f under a top whose magic words are m1 and m2
Packet(m1, m2, f) == [f EXCEPT !.magic1 = m1, !.magic2 = m2]

\* No frame: handle_packet returned None, or nothing was built yet
NoFrame == Frame(-1, 0, 0, << >>)

\* The handler raised (struct.error): run() takes the except branch
Raised == Frame(-2, 0, 0, << >>)

\* Faulty variant: the response does not number itself after the request
ReplyUnnumbered(cmd, f, data) == Frame(cmd, f.session, 0, data)

\* create_header(command, session_id, reply_id, data) of a response to f
Reply(cmd, f, data) == Frame(cmd, f.session, f.reply, data)

devvars == << users, templates, attendance_records, users_count, fingers_count, records_count >>
sessvars == << session_id, is_authenticated >>
enrvars == << enrollment_mode, enrollment_uid, enrollment_fid >>

----------------------------------------------------------------------------
(* Bulk upload parser of handle_save_usertemps *)

RECURSIVE ParseUsers(_, _, _)
\* "while len(user_data) >= packet_size": decode one record, upsert it, go on
ParseUsers(user_data, packet_size, us) ==
    IF Len(user_data) < packet_size THEN us
    ELSE IF packet_size = 72
         THEN ParseUsers(From(user_data, 72), packet_size, UpsertUser(us, Unpack72(user_data)))
         ELSE ParseUsers(From(user_data, 28), packet_size, UpsertUser(us, Unpack28(user_data)))

\* "Determine user packet size (28 or 72 bytes)"
PacketSize(upack_size) == IF upack_size >= 72 /\ upack_size % 72 = 0 THEN 72 ELSE 28

RECURSIVE ParseTableToEnd(_, _)
\* Faulty variant: every template runs to the end of the template block
ParseTableToEnd(table_data, fpack_data) ==
    IF Len(table_data) < 8 THEN << >>
    ELSE LET more == ParseTableToEnd(From(table_data, 8), fpack_data)
         IN  IF S8(table_data[1]) = 2
             THEN << Template(U16(table_data, 1), S8(table_data[4]) - 16, 1,
                              Slice(fpack_data, U32(table_data, 4), Len(fpack_data))) >>
                      \o more
             ELSE more

RECURSIVE ParseTable(_, _)
\* "while len(table_data) >= 8": the templates_to_add of the table's type-2 entries
ParseTable(table_data, fpack_data) ==
    IF Len(table_data) < 8 THEN << >>
    ELSE LET entry_type == S8(table_data[1])
             uid == U16(table_data, 1)
             fnum == S8(table_data[4])
             tstart == U32(table_data, 4)
             rest == From(table_data, 8)
             tend == IF Len(rest) >= 8 THEN U32(rest, 4) ELSE Len(fpack_data)
             more == ParseTable(rest, fpack_data)
         IN  IF entry_type = 2
             THEN << Template(uid, fnum - 16, 1, Slice(fpack_data, tstart, tend)) >> \o more
             ELSE more

RECURSIVE AddTemplates(_, _)
\* "for tmpl in templates_to_add": remove the old one, append the new one
AddTemplates(ts, to_add) ==
    IF Len(to_add) = 0 THEN ts
    ELSE AddTemplates(UpsertTemplate(ts, Head(to_add)), Tail(to_add))

\* The three sizes of the 12-byte header
UpackSize(buf) == U32(buf, 0)
TableSize(buf) == U32(buf, 4)
FpackSize(buf) == U32(buf, 8)

\* The three blobs as the handler slices them out of the scratch
UserBlock(buf) ==
    IF UpackSize(buf) > 0 THEN Slice(buf, 12, 12 + UpackSize(buf)) ELSE << >>
TableOffset(buf) == IF UpackSize(buf) > 0 THEN 12 + UpackSize(buf) ELSE 12
TableBlock(buf) ==
    IF TableSize(buf) > 0
    THEN Slice(buf, TableOffset(buf), TableOffset(buf) + TableSize(buf))
    ELSE << >>
FpackBlock(buf) ==
    IF TableSize(buf) > 0
    THEN Slice(buf, TableOffset(buf) + TableSize(buf),
               TableOffset(buf) + TableSize(buf) + FpackSize(buf))
    ELSE << >>

\* self.users after the upload in buf was merged
SavedUsers(us, buf) ==
    IF Len(buf) >= 12 /\ UpackSize(buf) > 0
    THEN ParseUsers(UserBlock(buf), PacketSize(UpackSize(buf)), us)
    ELSE us

\* templates_to_add of the upload in buf
TemplatesToAdd(buf) ==
    IF Len(buf) >= 12 /\ TableSize(buf) > 0
    THEN ParseTable(TableBlock(buf), FpackBlock(buf))
    ELSE << >>

----------------------------------------------------------------------------
(* Command handlers: each builds the response to frame f and updates self *)

cfgvars == << password, use_tcp >>

\* Faulty variant: the device password is not looked at
handle_connect_open(f) ==
    /\ session_id' = (IF f.session # 0 THEN f.session ELSE 1000)
    /\ is_authenticated' = TRUE
    /\ response' = Frame(CMD_ACK_OK, session_id', f.reply, << >>)
    /\ start_enrollment' = FALSE
    /\ UNCHANGED << devvars, enrvars, data_buffer >>

\* Faulty variant: the session id is the request's, 0 included
handle_connect_echoing(f) ==
    /\ session_id' = f.session
    /\ IF password = 0
       THEN /\ is_authenticated' = TRUE
            /\ response' = Frame(CMD_ACK_OK, session_id', f.reply, << >>)
       ELSE /\ is_authenticated' = is_authenticated
            /\ response' = Frame(CMD_ACK_UNAUTH, session_id', f.reply, << >>)
    /\ start_enrollment' = FALSE
    /\ UNCHANGED << devvars, enrvars, data_buffer >>

handle_connect(f) ==
    /\ session_id' = (IF f.session # 0 THEN f.session ELSE 1000)
    /\ IF password = 0
       THEN /\ is_authenticated' = TRUE
            /\ response' = Frame(CMD_ACK_OK, session_id', f.reply, << >>)
       ELSE /\ is_authenticated' = is_authenticated
            /\ response' = Frame(CMD_ACK_UNAUTH, session_id', f.reply, << >>)
    /\ start_enrollment' = FALSE
    /\ UNCHANGED << devvars, enrvars, data_buffer >>

\* "For simplicity, accept any auth attempt"
handle_auth(f) ==
    /\ is_authenticated' = TRUE
    /\ session_id' = f.session
    /\ response' = Frame(CMD_ACK_OK, session_id', f.reply, << >>)
    /\ start_enrollment' = FALSE
    /\ UNCHANGED << devvars, enrvars, data_buffer >>

handle_exit(f) ==
    /\ response' = Reply(CMD_ACK_OK, f, << >>)
    /\ is_authenticated' = FALSE
    /\ start_enrollment' = FALSE
    /\ UNCHANGED << devvars, session_id, enrvars, data_buffer >>

\* A handler that answers OK, without payload, and touches nothing
AckOnly(f) ==
    /\ response' = Reply(CMD_ACK_OK, f, << >>)
    /\ start_enrollment' = FALSE
    /\ UNCHANGED << devvars, sessvars, enrvars, data_buffer >>

handle_enable_device(f) == AckOnly(f)
handle_disable_device(f) == AckOnly(f)
handle_free_data(f) == AckOnly(f)
handle_start_verify(f) == AckOnly(f)
handle_unlock(f) == AckOnly(f)
handle_test_voice(f) == AckOnly(f)
handle_refresh_data(f) == AckOnly(f)

handle_get_free_sizes(f) ==
    /\ response' = Reply(CMD_ACK_OK, f, FreeSizesPayload(users_count, fingers_count, records_count))
    /\ start_enrollment' = FALSE
    /\ UNCHANGED << devvars, sessvars, enrvars, data_buffer >>

handle_usertemp_rrq(f) ==
    /\ response' = Reply(CMD_DATA, f, UserListPayload(users))
    /\ start_enrollment' = FALSE
    /\ UNCHANGED << devvars, sessvars, enrvars, data_buffer >>

handle_db_rrq(f) ==
    /\ response' = (IF \A i \in 1..Len(templates) : TemplatePackable(templates[i])
                    THEN Reply(CMD_DATA, f, TemplateListPayload(templates))
                    ELSE Raised)
    /\ start_enrollment' = FALSE
    /\ UNCHANGED << devvars, sessvars, enrvars, data_buffer >>

handle_attlog_rrq(f) ==
    /\ response' = Reply(CMD_DATA, f, AttendanceListPayload(attendance_records))
    /\ start_enrollment' = FALSE
    /\ UNCHANGED << devvars, sessvars, enrvars, data_buffer >>

\* Faulty variant: the user counter is incremented, not recomputed
handle_user_wrq_counting(f) ==
    /\ IF Len(f.data) >= 28
       THEN /\ users' = UpsertUser(users, Unpack28(f.data))
            /\ users_count' = users_count + 1
       ELSE UNCHANGED << users, users_count >>
    /\ response' = Reply(CMD_ACK_OK, f, << >>)
    /\ start_enrollment' = FALSE
    /\ UNCHANGED << templates, attendance_records, fingers_count, records_count,
                    sessvars, enrvars, data_buffer >>

handle_user_wrq(f) ==
    /\ IF Len(f.data) >= 28
       THEN /\ users' = UpsertUser(users, Unpack28(f.data))
            /\ users_count' = Len(users')
       ELSE IF Len(f.data) >= 72
            THEN /\ users' = UpsertUser(users, Unpack72(f.data))
                 /\ users_count' = Len(users')
            ELSE UNCHANGED << users, users_count >>
    /\ response' = Reply(CMD_ACK_OK, f, << >>)
    /\ start_enrollment' = FALSE
    /\ UNCHANGED << templates, attendance_records, fingers_count, records_count,
                    sessvars, enrvars, data_buffer >>

handle_delete_user(f) ==
    /\ IF Len(f.data) >= 2
       THEN /\ users' = RemoveUser(users, U16(f.data, 0))
            /\ templates' = RemoveUserTemplates(templates, U16(f.data, 0))
            /\ users_count' = Len(users')
            /\ fingers_count' = Len(templates')
       ELSE UNCHANGED << users, templates, users_count, fingers_count >>
    /\ response' = Reply(CMD_ACK_OK, f, << >>)
    /\ start_enrollment' = FALSE
    /\ UNCHANGED << attendance_records, records_count, sessvars, enrvars, data_buffer >>

handle_delete_usertemp(f) ==
    /\ IF Len(f.data) >= 3
       THEN /\ templates' = RemoveTemplate(templates, U16(f.data, 0), S8(f.data[3]))
            /\ fingers_count' = Len(templates')
       ELSE UNCHANGED << templates, fingers_count >>
    /\ response' = Reply(CMD_ACK_OK, f, << >>)
    /\ start_enrollment' = FALSE
    /\ UNCHANGED << users, attendance_records, users_count, records_count,
                    sessvars, enrvars, data_buffer >>

\* "Find uid from user_id": the first user whose str(user_id) is the string, else
\* int(user_id), else 1
\* Faulty variant: the numeric value is tried before the users are searched
ResolveUidNumericFirst(us, user_id) ==
    LET hits == { i \in 1..Len(us) : Str(us[i].user_id) = user_id }
    IN  IF IsDigit(user_id) THEN ParseInt(user_id)
        ELSE IF hits # {} THEN us[CHOOSE i \in hits : \A j \in hits : i <= j].uid
        ELSE 1

\* The uid of the first user whose user id reads user_id, else int(user_id), else
\* 1.  int() is modelled on strings of ASCII digits and on strings it rejects.
ResolveUid(us, user_id) ==
    LET hits == { i \in 1..Len(us) : Str(us[i].user_id) = user_id }
    IN  IF hits # {} THEN us[CHOOSE i \in hits : \A j \in hits : i <= j].uid
        ELSE IF IsDigit(user_id) THEN ParseInt(user_id)
        ELSE 1

handle_start_enroll(f) ==
    /\ IF Len(f.data) >= 26
       THEN /\ enrollment_mode' = TRUE
            /\ enrollment_uid' = ResolveUid(users, RStrip0(Slice(f.data, 0, 24)))
            /\ enrollment_fid' = S8(f.data[25])
       ELSE IF Len(f.data) >= 5
            THEN /\ enrollment_mode' = TRUE
                 /\ enrollment_uid' = U32(f.data, 0)
                 /\ enrollment_fid' = S8(f.data[5])
            ELSE UNCHANGED enrvars
    /\ response' = Reply(CMD_ACK_OK, f, << >>)
    /\ start_enrollment' = TRUE
    /\ UNCHANGED << devvars, sessvars, data_buffer >>

handle_cancel_capture(f) ==
    /\ enrollment_mode' = FALSE
    /\ enrollment_uid' = 0
    /\ enrollment_fid' = 0
    /\ response' = Reply(CMD_ACK_OK, f, << >>)
    /\ start_enrollment' = FALSE
    /\ UNCHANGED << devvars, sessvars, data_buffer >>

handle_prepare_data(f) ==
    /\ IF Len(f.data) >= 4
       THEN /\ data_buffer' = << >>
            /\ response' = Reply(CMD_ACK_OK, f, << >>)
       ELSE /\ data_buffer' = data_buffer
            /\ response' = Reply(CMD_ACK_ERROR, f, << >>)
    /\ start_enrollment' = FALSE
    /\ UNCHANGED << devvars, sessvars, enrvars >>

\* Faulty variant: a DATA payload overwrites the scratch
handle_data_packet_overwriting(f) ==
    /\ data_buffer' = f.data
    /\ response' = Reply(CMD_ACK_OK, f, << >>)
    /\ start_enrollment' = FALSE
    /\ UNCHANGED << devvars, sessvars, enrvars >>

handle_data_packet(f) ==
    /\ data_buffer' = data_buffer \o f.data
    /\ response' = Reply(CMD_ACK_OK, f, << >>)
    /\ start_enrollment' = FALSE
    /\ UNCHANGED << devvars, sessvars, enrvars >>

handle_save_usertemps(f) ==
    /\ users' = SavedUsers(users, data_buffer)
    /\ users_count' = (IF Len(data_buffer) >= 12 /\ UpackSize(data_buffer) > 0
                       THEN Len(users') ELSE users_count)
    /\ templates' = AddTemplates(templates, TemplatesToAdd(data_buffer))
    /\ fingers_count' = (IF Len(data_buffer) >= 12 THEN Len(templates') ELSE fingers_count)
    /\ data_buffer' = << >>
    /\ response' = Reply(CMD_ACK_OK, f, << >>)
    /\ start_enrollment' = FALSE
    /\ UNCHANGED << attendance_records, records_count, sessvars, enrvars >>

\* A timestamp is the pair << high, low >> of its 16-bit words: the values of
\* the last decades of the century do not fit a signed 32-bit integer.
\* << t // m, t % m >> for a divisor m below 2^15
DivMod(t, m) ==
    LET mid == (t[1] % m) * 65536 + t[2]
    IN  << << t[1] \div m, mid \div m >>, mid % m >>

\* struct.unpack('I', data[:4])[0]
UnpackTime(data) == << U16(data, 2), U16(data, 0) >>

\* struct.pack('I', d), for d below 2^32
PackTime(d) == Pack16(d[2]) \o Pack16(d[1])

Datetime(year, month, day, hour, minute, second) ==
    [year |-> year, month |-> month, day |-> day,
     hour |-> hour, minute |-> minute, second |-> second]

\* Faulty variant: the months are taken to have 30 day slots
encode_time_30(dt) ==
    LET days == (dt.year % 100) * 12 * 30 + (dt.month - 1) * 30 + dt.day - 1
        seconds == (dt.hour * 60 + dt.minute) * 60 + dt.second
        low == days * (86400 - 65536) + seconds
    IN  << days + (low \div 65536), low % 65536 >>

\* The number d of encode_time(dt), before struct.pack: days * 86400 + seconds,
\* with 86400 = 65536 + 20864
encode_time(dt) ==
    LET days == (dt.year % 100) * 12 * 31 + (dt.month - 1) * 31 + dt.day - 1
        seconds == (dt.hour * 60 + dt.minute) * 60 + dt.second
        low == days * (86400 - 65536) + seconds
    IN  << days + (low \div 65536), low % 65536 >>

\* decode_time(t): the fields the timestamp divides into
decode_time(t) ==
    LET minutes == DivMod(t, 60)
        hours == DivMod(minutes[1], 60)
        days == DivMod(hours[1], 24)
        months == DivMod(days[1], 31)
        years == DivMod(months[1], 12)
    IN  Datetime(years[1][1] * 65536 + years[1][2] + 2000, years[2] + 1, months[2] + 1,
                 days[2], hours[2], minutes[2])

\* The days of month m of year y
DaysInMonth(y, m) ==
    IF m = 2
    THEN (IF y % 4 = 0 /\ (y % 100 # 0 \/ y % 400 = 0) THEN 29 ELSE 28)
    ELSE IF m \in { 4, 6, 9, 11 } THEN 30 ELSE 31

\* datetime(year, month, day, hour, minute, second) returns: it raises
\* ValueError for a day the month does not have
IsDatetime(d) == d.year <= 9999 /\ d.day <= DaysInMonth(d.year, d.month)

\* now = datetime.now() is the datetime the handler is given
handle_get_time(f, now) ==
    /\ response' = (IF encode_time(now)[1] > USHRT_MAX
                    THEN Raised
                    ELSE Reply(CMD_ACK_OK, f, PackTime(encode_time(now))))
    /\ start_enrollment' = FALSE
    /\ UNCHANGED << devvars, sessvars, enrvars, data_buffer >>

\* The timestamp is decoded "to verify it" and dropped; decode_time raising is
\* not caught here
handle_set_time(f) ==
    /\ response' = (IF Len(f.data) >= 4 /\ ~IsDatetime(decode_time(UnpackTime(f.data)))
                    THEN Raised
                    ELSE Reply(CMD_ACK_OK, f, << >>))
    /\ start_enrollment' = FALSE
    /\ UNCHANGED << devvars, sessvars, enrvars, data_buffer >>

\* Faulty variant: the template is looked up by uid alone
handle_get_usertemp_any_finger(f) ==
    /\ response' =
           (IF Len(f.data) >= 3
            THEN LET uid == U16(f.data, 0)
                     found == { i \in 1..Len(templates) : templates[i].uid = uid }
                 IN  IF found # {}
                     THEN Reply(CMD_DATA, f,
                                templates[CHOOSE i \in found : \A j \in found : i <= j].tmpl
                                    \o Zeros(6))
                     ELSE Reply(CMD_ACK_ERROR, f, << >>)
            ELSE Reply(CMD_ACK_ERROR, f, << >>))
    /\ start_enrollment' = FALSE
    /\ UNCHANGED << devvars, sessvars, enrvars, data_buffer >>

\* The first template under (uid, temp_id), with six zero bytes behind it
handle_get_usertemp(f) ==
    /\ response' =
           (IF Len(f.data) >= 3
            THEN LET uid == U16(f.data, 0)
                     temp_id == S8(f.data[3])
                     found == { i \in 1..Len(templates) :
                                   templates[i].uid = uid /\ templates[i].fid = temp_id }
                 IN  IF found # {}
                     THEN Reply(CMD_DATA, f,
                                templates[CHOOSE i \in found : \A j \in found : i <= j].tmpl
                                    \o Zeros(6))
                     ELSE Reply(CMD_ACK_ERROR, f, << >>)
            ELSE Reply(CMD_ACK_ERROR, f, << >>))
    /\ start_enrollment' = FALSE
    /\ UNCHANGED << devvars, sessvars, enrvars, data_buffer >>

\* Faulty variant: the function types of users and templates are swapped
handle_prepare_buffer_swapped(f) ==
    /\ response' =
           (IF Len(f.data) >= 11
            THEN LET fct == U32(f.data, 3)
                 IN  IF fct = FCT_FINGERTMP
                     THEN Reply(CMD_DATA, f, UserListPayload(users))
                     ELSE IF fct = FCT_USER
                     THEN (IF \A i \in 1..Len(templates) : TemplatePackable(templates[i])
                           THEN Reply(CMD_DATA, f, TemplateListPayload(templates))
                           ELSE Raised)
                     ELSE IF fct = FCT_ATTLOG
                     THEN Reply(CMD_DATA, f, AttendanceListPayload(attendance_records))
                     ELSE Reply(CMD_DATA, f, Pack32(0))
            ELSE Reply(CMD_ACK_ERROR, f, << >>))
    /\ start_enrollment' = FALSE
    /\ UNCHANGED << devvars, sessvars, enrvars, data_buffer >>

\* '<bhii' of data[:11]: flag, command, fct, ext.  fct is read here as the
\* unsigned value of its four bytes, which is the signed one wherever it is
\* compared with 5, 2 and 1.
handle_prepare_buffer(f) ==
    /\ response' =
           (IF Len(f.data) >= 11
            THEN LET fct == U32(f.data, 3)
                 IN  IF fct = FCT_USER
                     THEN Reply(CMD_DATA, f, UserListPayload(users))
                     ELSE IF fct = FCT_FINGERTMP
                     THEN (IF \A i \in 1..Len(templates) : TemplatePackable(templates[i])
                           THEN Reply(CMD_DATA, f, TemplateListPayload(templates))
                           ELSE Raised)
                     ELSE IF fct = FCT_ATTLOG
                     THEN Reply(CMD_DATA, f, AttendanceListPayload(attendance_records))
                     ELSE Reply(CMD_DATA, f, Pack32(0))
            ELSE Reply(CMD_ACK_ERROR, f, << >>))
    /\ start_enrollment' = FALSE
    /\ UNCHANGED << devvars, sessvars, enrvars, data_buffer >>

\* Faulty variant: an unknown command ends the session
handle_unknown_resetting(f) ==
    /\ response' = Reply(CMD_ACK_ERROR, f, << >>)
    /\ start_enrollment' = FALSE
    /\ is_authenticated' = FALSE
    /\ data_buffer' = << >>
    /\ UNCHANGED << devvars, session_id, enrvars >>

\* The else branch of the dispatch: "Unknown command"
handle_unknown(f) ==
    /\ response' = Reply(CMD_ACK_ERROR, f, << >>)
    /\ start_enrollment' = FALSE
    /\ UNCHANGED << devvars, sessvars, enrvars, data_buffer >>

\* The command codes the dispatch of handle_packet names
DispatchTable ==
    { CMD_CONNECT, CMD_AUTH, CMD_EXIT, CMD_ENABLEDEVICE, CMD_DISABLEDEVICE,
      CMD_GET_VERSION, CMD_GET_TIME, CMD_SET_TIME, CMD_OPTIONS_RRQ, CMD_OPTIONS_WRQ,
      CMD_GET_FREE_SIZES, CMD_USERTEMP_RRQ, CMD_FREE_DATA, CMD_PREPARE_BUFFER,
      CMD_REG_EVENT, CMD_STARTVERIFY, CMD_GET_PINWIDTH, CMD_UNLOCK, CMD_TESTVOICE,
      CMD_USER_WRQ, CMD_DELETE_USER, CMD_REFRESHDATA, CMD_DELETE_USERTEMP,
      CMD_GET_USERTEMP, CMD_DB_RRQ, CMD_ATTLOG_RRQ, CMD_STARTENROLL,
      CMD_CANCELCAPTURE, CMD_PREPARE_DATA, CMD_DATA, CMD_SAVE_USERTEMPS,
      CMD_READ_BUFFER }

\* Datetimes datetime.now() returns: the first and the last second of the first,
\* the last three and the last day of four months, in a leap year, in the first
\* year whose timestamps pass 2^31, and in the last year of the century
Clock ==
    { dt \in { Datetime(year, month, day, time[1], time[2], time[3]) :
                   year \in { 2000, 2068, 2099 }, month \in { 1, 2, 4, 12 },
                   day \in { 1, 28, 29, 30, 31 },
                   time \in { << 0, 0, 0 >>, << 23, 59, 59 >> } } :
          IsDatetime(dt) }

\* "Route to appropriate handler".  The handlers of GET VERSION, OPTIONS RRQ,
\* OPTIONS WRQ, REG EVENT, GET PINWIDTH and READ BUFFER are not part of this
\* model: no step takes such a request.
Route(f) ==
    IF f.cmd = CMD_CONNECT THEN handle_connect(f)
    ELSE IF f.cmd = CMD_AUTH THEN handle_auth(f)
    ELSE IF f.cmd = CMD_EXIT THEN handle_exit(f)
    ELSE IF f.cmd = CMD_ENABLEDEVICE THEN handle_enable_device(f)
    ELSE IF f.cmd = CMD_DISABLEDEVICE THEN handle_disable_device(f)
    ELSE IF f.cmd = CMD_FREE_DATA THEN handle_free_data(f)
    ELSE IF f.cmd = CMD_STARTVERIFY THEN handle_start_verify(f)
    ELSE IF f.cmd = CMD_UNLOCK THEN handle_unlock(f)
    ELSE IF f.cmd = CMD_TESTVOICE THEN handle_test_voice(f)
    ELSE IF f.cmd = CMD_REFRESHDATA THEN handle_refresh_data(f)
    ELSE IF f.cmd = CMD_GET_FREE_SIZES THEN handle_get_free_sizes(f)
    ELSE IF f.cmd = CMD_USERTEMP_RRQ THEN handle_usertemp_rrq(f)
    ELSE IF f.cmd = CMD_USER_WRQ THEN handle_user_wrq(f)
    ELSE IF f.cmd = CMD_DELETE_USER THEN handle_delete_user(f)
    ELSE IF f.cmd = CMD_DELETE_USERTEMP THEN handle_delete_usertemp(f)
    ELSE IF f.cmd = CMD_DB_RRQ THEN handle_db_rrq(f)
    ELSE IF f.cmd = CMD_ATTLOG_RRQ THEN handle_attlog_rrq(f)
    ELSE IF f.cmd = CMD_STARTENROLL THEN handle_start_enroll(f)
    ELSE IF f.cmd = CMD_CANCELCAPTURE THEN handle_cancel_capture(f)
    ELSE IF f.cmd = CMD_PREPARE_DATA THEN handle_prepare_data(f)
    ELSE IF f.cmd = CMD_DATA THEN handle_data_packet(f)
    ELSE IF f.cmd = CMD_SAVE_USERTEMPS THEN handle_save_usertemps(f)
    ELSE IF f.cmd = CMD_GET_TIME THEN \E now \in Clock : handle_get_time(f, now)
    ELSE IF f.cmd = CMD_SET_TIME THEN handle_set_time(f)
    ELSE IF f.cmd = CMD_PREPARE_BUFFER THEN handle_prepare_buffer(f)
    ELSE IF f.cmd = CMD_GET_USERTEMP THEN handle_get_usertemp(f)
    ELSE IF f.cmd \in DispatchTable THEN FALSE
    ELSE handle_unknown(f)

\* handle_packet(packet) in TCP mode: a packet whose top does not carry the two
\* magic words is answered with nothing ("return None, False"); any other is
\* routed
handle_packet(f) ==
    IF use_tcp /\ (f.magic1 # MACHINE_PREPARE_DATA_1 \/ f.magic2 # MACHINE_PREPARE_DATA_2)
    THEN /\ response' = NoFrame
         /\ start_enrollment' = FALSE
         /\ UNCHANGED << devvars, sessvars, enrvars, data_buffer >>
    ELSE Route(f)

----------------------------------------------------------------------------
(* Client payloads: what the requests of the checked runs carry *)

\* A 28-byte user record '<HB5s8sIxBHI' as a client packs it
MkUser28(uid, privilege, pw, name, card, group_id, user_id) ==
    Pack16(uid) \o << privilege >> \o Ljust(pw, 5) \o Ljust(name, 8) \o Pack32(card)
        \o << 0, group_id >> \o << 0, 0 >> \o Pack32(user_id)

\* A 72-byte user record '<HB8s24sIx7sx24s' as a client packs it
MkUser72(uid, privilege, pw, name, card, group_id, user_id) ==
    Pack16(uid) \o << privilege >> \o Ljust(pw, 8) \o Ljust(name, 24) \o Pack32(card)
        \o << 0 >> \o Ljust(group_id, 7) \o << 0 >> \o Ljust(user_id, 24)

\* An 8-byte table entry '<bHbI'
MkEntry(entry_type, uid, fnum, tstart) ==
    << entry_type % 256 >> \o Pack16(uid) \o << fnum % 256 >> \o Pack32(tstart)

\* An upload: the 12-byte header and the three blobs
MkUpload(user_block, table, fpack) ==
    Pack32(Len(user_block)) \o Pack32(Len(table)) \o Pack32(Len(fpack))
        \o user_block \o table \o fpack

\* STARTENROLL's 26 bytes: user id, finger, flag
MkEnroll(user_id, temp_id, flag) == Ljust(user_id, 24) \o << temp_id % 256, flag >>

NameBob == << 66, 111, 98 >>
NameEve == << 69, 118, 101 >>
NameBulk == << 66, 117, 108, 107 >>

----------------------------------------------------------------------------
(* Initial state: the simulator after __init__, run() waiting in accept *)

\* An enrollment thread slot: pc "idle" is a slot no thread uses
IdleTask ==
    [pc |-> "idle", k |-> 0, session |-> 0, live |-> FALSE, ack |-> NoFrame,
     event_data |-> << >>, local |-> << >>, cancelled |-> FALSE]

\* The locals of a handler that is not rewriting self.templates
NoLocal == [list |-> << >>, todo |-> << >>]

\* Bound: enrollment threads alive at the same time
MaxTasks == 2

\* sock.listen(5) with no connection waiting
NoBacklog == [pc |-> "none", sent |-> << >>]

\* PyZKWrapper(...): not connected, no call made
NewWrapper ==
    [is_connected |-> FALSE, op |-> "none", pc |-> "idle", result |-> "none",
     disable_calls |-> 0, enable_calls |-> 0, error |-> "none"]

\* ZKSimulator(password = pw, use_tcp = tcp), then run() up to its first accept
\* (TCP) or its first recvfrom (UDP)
Listening(pw, tcp) ==
    /\ users = SeedUsers
    /\ templates = << >>
    /\ attendance_records = << >>
    /\ users_count = Len(SeedUsers)
    /\ fingers_count = INIT_FINGERS_COUNT
    /\ records_count = INIT_RECORDS_COUNT
    /\ session_id = 0
    /\ is_authenticated = FALSE
    /\ enrollment_mode = FALSE
    /\ enrollment_uid = 0
    /\ enrollment_fid = 0
    /\ data_buffer = << >>
    /\ conn = (IF tcp THEN "listening" ELSE "datagram")
    /\ inbox = << >>
    /\ mainpc = (IF tcp THEN "accept" ELSE "recvfrom")
    /\ request = NoFrame
    /\ response = NoFrame
    /\ start_enrollment = FALSE
    /\ mlocal = NoLocal
    /\ tasks = [t \in 1..MaxTasks |-> IdleTask]
    /\ unacked = 0
    /\ password = pw
    /\ use_tcp = tcp
    /\ wrapper = NewWrapper
    /\ backlog = NoBacklog
    /\ stream = << >>

\* The simulator in TCP mode
Started(pw) == Listening(pw, TRUE)

\* The default: no device password
Init == Started(0)

----------------------------------------------------------------------------
(* The request loop of run(), one request per step: recv, handle_packet, send. *)
(* No enrollment thread runs beside it.                                        *)

threadvars == << inbox, mlocal, tasks, unacked >>

\* sock.accept()
Accept ==
    /\ conn = "listening" /\ mainpc = "accept"
    /\ conn' = "open"
    /\ mainpc' = "recv"
    /\ UNCHANGED << devvars, sessvars, enrvars, data_buffer, request, response,
                    start_enrollment, threadvars, cfgvars, wrapper, netvars >>

\* recv returns b'' (data is now empty): "if not data: break", then the
\* finally's conn.close()
Disconnect ==
    /\ conn = "open" /\ mainpc = "recv"
    /\ \A t \in 1..MaxTasks : tasks[t].pc = "idle"
    /\ conn' = "listening"
    /\ mainpc' = "accept"
    /\ request' = NoFrame
    /\ UNCHANGED << devvars, sessvars, enrvars, data_buffer, response,
                    start_enrollment, threadvars, cfgvars, wrapper, netvars >>

\* data = conn.recv(1024) returned frame f; handle_packet(data); conn.send(response).
\* A handler that raises sends nothing: the except branch, then conn.close().
Serve(f) ==
    /\ conn = "open" /\ mainpc = "recv"
    /\ \A t \in 1..MaxTasks : tasks[t].pc = "idle"
    /\ request' = f
    /\ handle_packet(f)
    /\ IF response' = Raised
       THEN conn' = "listening" /\ mainpc' = "accept"
       ELSE conn' = conn /\ mainpc' = mainpc
    /\ UNCHANGED << threadvars, cfgvars, wrapper, netvars >>

\* Bound: the reply id of the requests
ReplyId == 7

Req(cmd, data) == Frame(cmd, session_id, ReplyId, data)

\* USER WRQ payloads: a 28-byte record for a seed uid, a 72-byte record for a new
\* uid, a payload shorter than either layout
UserWrqPayloads ==
    { MkUser28(2, 14, Pw12345, NameBob, 7, 1, 22),
      MkUser72(4, 0, << >>, NameEve, 9, << 49 >>, << 52 >>),
      << 2, 0, 0, 0, 0, 0, 0, 0, 0, 0 >> }

\* DELETE USER payloads: uids 2 and 4, and a 1-byte payload
DeleteUserPayloads == { Pack16(2), Pack16(4), << 2 >> }

\* DELETE USERTEMP payloads: (uid 4, finger 0), and a 2-byte payload
DeleteUsertempPayloads == { Pack16(4) \o << 0 >>, << 4, 0 >> }

\* Uploads: one 72-byte user and nothing else; a 28-byte user with two templates;
\* no user, a table whose first entry is not a fingerprint
UploadBulk == MkUpload(MkUser72(9, 0, << >>, NameBulk, 0, << >>, << 57 >>), << >>, << >>)
UploadFingers ==
    MkUpload(MkUser28(4, 0, << >>, NameEve, 0, 0, 4),
             MkEntry(2, 4, 16, 0) \o MkEntry(2, 4, 17, 2), << 1, 2, 3, 4, 5 >>)
UploadTable ==
    MkUpload(<< >>, MkEntry(1, 2, 16, 0) \o MkEntry(2, 2, 16, 1), << 7, 8, 9 >>)

\* PREPARE DATA payloads: a 4-byte size, and a 2-byte payload
PrepareDataPayloads == { Pack32(61), << 61, 0 >> }

\* Bound: bytes the upload scratch holds
MaxBuf == 84

UserWrq == \E d \in UserWrqPayloads : Serve(Req(CMD_USER_WRQ, d))
DeleteUser == \E d \in DeleteUserPayloads : Serve(Req(CMD_DELETE_USER, d))
DeleteUsertemp == \E d \in DeleteUsertempPayloads : Serve(Req(CMD_DELETE_USERTEMP, d))
UsertempRrq == Serve(Req(CMD_USERTEMP_RRQ, << >>))
DbRrq == Serve(Req(CMD_DB_RRQ, << >>))
AttlogRrq == Serve(Req(CMD_ATTLOG_RRQ, << >>))
GetFreeSizes == Serve(Req(CMD_GET_FREE_SIZES, << >>))
PrepareData == \E d \in PrepareDataPayloads : Serve(Req(CMD_PREPARE_DATA, d))
Data(payloads) ==
    \E d \in payloads :
        /\ Len(data_buffer) + Len(d) <= MaxBuf
        /\ Serve(Req(CMD_DATA, d))
SaveUsertemps == Serve(Req(CMD_SAVE_USERTEMPS, Pack32(0) \o Pack16(0) \o Pack32(0)))

\* Requests on the device model; an upload arrives whole, in one DATA frame
Next ==
    \/ Accept
    \/ Disconnect
    \/ UserWrq
    \/ DeleteUser
    \/ DeleteUsertemp
    \/ UsertempRrq
    \/ DbRrq
    \/ AttlogRrq
    \/ GetFreeSizes
    \/ PrepareData
    \/ Data({ UploadFingers, UploadTable })
    \/ SaveUsertemps

Spec == Init /\ [][Next]_vars

----------------------------------------------------------------------------
(* Bulk upload: PREPARE DATA, DATA frames, SAVE USERTEMPS *)

\* Bound: where a client cuts an upload in two DATA frames
CutAt == 12

\* DATA payloads: an upload whole, or one of its two parts
DataPayloads ==
    { UploadBulk, Slice(UploadFingers, 0, CutAt), From(UploadFingers, CutAt) }

NextUpload ==
    \/ Accept
    \/ Disconnect
    \/ PrepareData
    \/ Data(DataPayloads)
    \/ SaveUsertemps
    \/ UsertempRrq
    \/ DbRrq

SpecUpload == Init /\ [][NextUpload]_vars

----------------------------------------------------------------------------
(* Properties of the device model and of the upload scratch *)

\* This step serves a request with command cmd and the connection stays open
Served(cmd) ==
    /\ conn = "open" /\ conn' = "open"
    /\ mainpc = "recv" /\ mainpc' = "recv"
    /\ request'.cmd = cmd

\* C4: no two records of the user set have the same uid, after any sequence of
\* USER WRQ, DELETE USER and SAVE USERTEMPS from the seed users.
C4_UidsUnique ==
    \A i, j \in 1..Len(users) : users[i].uid = users[j].uid => i = j

\* A seed uid was rewritten where it stood and a new uid was added
C4_Witness ==
    /\ Len(users) = 4
    /\ users[2].uid = 2 /\ users[2].privilege = 14
    /\ users[4].uid = 4

\* C6: the users-current counter equals the number of records of the user set,
\* and GET FREE SIZES reports that number at index 4.
C6_UsersCountMatches ==
    /\ users_count = Len(users)
    /\ (request.cmd = CMD_GET_FREE_SIZES /\ response.cmd = CMD_ACK_OK)
           => U32(response.data, 4 * 4) = Len(users)

\* GET FREE SIZES answered after the user set grew and shrank
C6_Witness ==
    /\ request.cmd = CMD_GET_FREE_SIZES /\ response.cmd = CMD_ACK_OK
    /\ Len(users) = 3
    /\ \A i \in 1..Len(users) : users[i].uid # 2
    /\ \E i \in 1..Len(users) : users[i].uid = 4

\* C7: the templates-current counter equals the number of templates and the
\* attendance-current counter equals the number of attendance records, from the
\* initial state on.
C7_CountsMatch ==
    /\ fingers_count = Len(templates)
    /\ records_count = Len(attendance_records)

\* The places of uid in a user list
Places(us, uid) == { i \in 1..Len(us) : us[i].uid = uid }

\* C8: USER WRQ with a record the handler decodes, for a uid in the set, puts the
\* record at the place of that uid and leaves every other record and the order
\* as they were; for a uid not in the set it adds the record at the end; and
\* USERTEMP RRQ lists the set in its order, so a uid deleted and written again is
\* listed last.
C8_UpsertKeepsPlace ==
    [][/\ (Served(CMD_USER_WRQ) /\ Len(request'.data) >= 28) =>
              LET uid == U16(request'.data, 0)
              IN  IF Places(users, uid) # {}
                  THEN /\ Len(users') = Len(users)
                       /\ \A i \in 1..Len(users) :
                              IF i \in Places(users, uid)
                              THEN users'[i].uid = uid
                                   /\ users'[i].privilege = request'.data[3]
                              ELSE users'[i] = users[i]
                  ELSE /\ Len(users') = Len(users) + 1
                       /\ SubSeq(users', 1, Len(users)) = users
                       /\ users'[Len(users')].uid = uid
       /\ Served(CMD_USERTEMP_RRQ) =>
              /\ response'.cmd = CMD_DATA
              /\ Len(response'.data) = 4 + 72 * Len(users)
              /\ \A i \in 1..Len(users) :
                     U16(response'.data, 4 + 72 * (i - 1)) = users[i].uid]_vars

\* uid 2 was deleted and written again, and USERTEMP RRQ has listed it last
C8_Witness ==
    /\ request.cmd = CMD_USERTEMP_RRQ /\ response.cmd = CMD_DATA
    /\ Len(users) = 3
    /\ users[3].uid = 2 /\ users[3].privilege = 14
    /\ U16(response.data, 4 + 72 * 2) = 2

\* C9: after DELETE USER with uid u is handled, no user has uid u and no template
\* is owned by u, every other user and template is there as before and in the
\* same order, and the response is OK.
C9_DeleteUserCascades ==
    [][(Served(CMD_DELETE_USER) /\ Len(request'.data) >= 2) =>
          LET u == U16(request'.data, 0)
          IN  /\ Places(users', u) = {}
              /\ \A i \in 1..Len(templates') : templates'[i].uid # u
              /\ users' = SelectSeq(users, LAMBDA x : x.uid # u)
              /\ templates' = SelectSeq(templates, LAMBDA x : x.uid # u)
              /\ response'.cmd = CMD_ACK_OK]_vars

\* DELETE USER 4 was handled and took the templates of uid 4, leaving the
\* template of uid 2
C9_Witness ==
    /\ request.cmd = CMD_DELETE_USER /\ request.data = Pack16(4)
    /\ response.cmd = CMD_ACK_OK
    /\ fingers_count = 1
    /\ Len(templates) = 1 /\ templates[1].uid = 2
    /\ Places(users, 4) = {}

----------------------------------------------------------------------------
(* run() and the enrollment threads, statement by statement.  The request    *)
(* loop and every enrollment thread call recv and send on the same socket    *)
(* and read and write the same self; no lock orders them.                     *)

\* Bound: frames the client has sent that the simulator has not read yet
MaxInbox == 1

\* Bound: pushed events the client remembers it has not acknowledged
MaxUnacked == 2

\* range(3): the finger scans of one enrollment, two events each
ATTEMPTS == 3
PAIRED == 2 * ATTEMPTS
TEMPLATE_SIZE == 512

\* event_data of the k-th event of one stream: 1 and 0x64 in turn, then the final
\* '<HHH' of (0, template_size, self.enrollment_fid)
EventData(k, fid) ==
    IF k <= PAIRED
    THEN (IF k % 2 = 1 THEN Pack16(1) ELSE Pack16(100))
    ELSE Pack16(0) \o Pack16(TEMPLATE_SIZE) \o Pack16(fid)

Busy(t) == tasks[t].pc # "idle"

\* The comprehension-and-assign statements of a handler are separate steps when
\* the handler rewrites self.templates
Stepwise(f) ==
    \/ f.cmd = CMD_DELETE_USER /\ Len(f.data) >= 2
    \/ f.cmd = CMD_DELETE_USERTEMP /\ Len(f.data) >= 3
    \/ f.cmd = CMD_SAVE_USERTEMPS /\ Len(data_buffer) >= 12

\* finally: conn.close().  The socket every thread of this connection holds is closed.
CloseConn ==
    /\ conn' = "listening"
    /\ mainpc' = "accept"
    /\ inbox' = << >>
    /\ unacked' = 0
    /\ mlocal' = NoLocal
    /\ tasks' = [t \in 1..MaxTasks |-> [tasks[t] EXCEPT !.live = FALSE]]

\* conn, addr = sock.accept(): the next client connects once the threads of the
\* last connection have ended
MainAccept ==
    /\ conn = "listening" /\ mainpc = "accept"
    /\ \A t \in 1..MaxTasks : ~Busy(t)
    /\ conn' = "open"
    /\ mainpc' = "recv"
    /\ inbox' = << >>
    /\ unacked' = 0
    /\ UNCHANGED << devvars, sessvars, enrvars, data_buffer, request, response,
                    start_enrollment, mlocal, tasks, cfgvars, wrapper, netvars >>

\* data = conn.recv(1024) in the request loop: the next frame of the connection
MainRecv ==
    /\ mainpc = "recv" /\ inbox # << >>
    /\ request' = Head(inbox)
    /\ inbox' = Tail(inbox)
    /\ mainpc' = "handle"
    /\ UNCHANGED << devvars, sessvars, enrvars, data_buffer, conn, response,
                    start_enrollment, mlocal, tasks, unacked, cfgvars, wrapper, netvars >>

\* recv returns b'' once the client has closed: break, conn.close()
MainEof ==
    /\ mainpc = "recv" /\ inbox = << >> /\ conn = "eof"
    /\ CloseConn
    /\ request' = NoFrame
    /\ response' = NoFrame
    /\ start_enrollment' = FALSE
    /\ UNCHANGED << devvars, sessvars, enrvars, data_buffer, cfgvars, wrapper, netvars >>

\* handle_packet(data) of a handler that runs without a step of another thread
\* mattering in between: it does not rewrite self.templates
MainHandle ==
    /\ mainpc = "handle" /\ ~Stepwise(request)
    /\ handle_packet(request)
    /\ IF response' = Raised
       THEN CloseConn
       ELSE /\ mainpc' = "send"
            /\ tasks' = [t \in 1..MaxTasks |->
                            IF request.cmd = CMD_CANCELCAPTURE /\ Busy(t)
                               /\ tasks[t].k <= PAIRED /\ tasks[t].live
                            THEN [tasks[t] EXCEPT !.cancelled = TRUE]
                            ELSE tasks[t]]
            /\ UNCHANGED << conn, inbox, unacked, mlocal >>
    /\ UNCHANGED << request, cfgvars, wrapper, netvars >>

\* The first statements of a handler that rewrites self.templates: everything up
\* to and including the evaluation of its first comprehension over self.templates
MainBegin ==
    /\ mainpc = "handle" /\ Stepwise(request)
    /\ IF request.cmd = CMD_DELETE_USER
       THEN /\ users' = RemoveUser(users, U16(request.data, 0))
            /\ mlocal' = [list |-> RemoveUserTemplates(templates, U16(request.data, 0)),
                          todo |-> << >>]
            /\ mainpc' = "assign"
            /\ UNCHANGED users_count
       ELSE IF request.cmd = CMD_DELETE_USERTEMP
       THEN /\ mlocal' = [list |-> RemoveTemplate(templates, U16(request.data, 0),
                                                   S8(request.data[3])),
                          todo |-> << >>]
            /\ mainpc' = "assign"
            /\ UNCHANGED << users, users_count >>
       ELSE /\ users' = SavedUsers(users, data_buffer)
            /\ users_count' = (IF UpackSize(data_buffer) > 0 THEN Len(users') ELSE users_count)
            /\ mlocal' = [list |-> << >>, todo |-> TemplatesToAdd(data_buffer)]
            /\ mainpc' = "filter"
    /\ UNCHANGED << templates, attendance_records, fingers_count, records_count,
                    sessvars, enrvars, data_buffer, conn, inbox, request, response,
                    start_enrollment, tasks, unacked, cfgvars, wrapper, netvars >>

\* SAVE USERTEMPS, "for tmpl in templates_to_add": the comprehension that drops
\* the old template of the next one
MainFilter ==
    /\ mainpc = "filter"
    /\ IF mlocal.todo = << >>
       THEN mainpc' = "count" /\ mlocal' = mlocal
       ELSE /\ mlocal' = [mlocal EXCEPT !.list = RemoveTemplate(templates, Head(mlocal.todo).uid,
                                                               Head(mlocal.todo).fid)]
            /\ mainpc' = "assign"
    /\ UNCHANGED << devvars, sessvars, enrvars, data_buffer, conn, inbox, request,
                    response, start_enrollment, tasks, unacked, cfgvars, wrapper, netvars >>

\* self.templates = <the list the comprehension built>
MainAssign ==
    /\ mainpc = "assign"
    /\ templates' = mlocal.list
    /\ mainpc' = (IF request.cmd = CMD_SAVE_USERTEMPS THEN "append" ELSE "count")
    /\ UNCHANGED << users, attendance_records, users_count, fingers_count, records_count,
                    sessvars, enrvars, data_buffer, conn, inbox, request, response,
                    start_enrollment, mlocal, tasks, unacked, cfgvars, wrapper, netvars >>

\* SAVE USERTEMPS: self.templates.append(tmpl)
MainAppend ==
    /\ mainpc = "append"
    /\ templates' = Append(templates, Head(mlocal.todo))
    /\ mlocal' = [mlocal EXCEPT !.todo = Tail(mlocal.todo)]
    /\ mainpc' = "filter"
    /\ UNCHANGED << users, attendance_records, users_count, fingers_count, records_count,
                    sessvars, enrvars, data_buffer, conn, inbox, request, response,
                    start_enrollment, tasks, unacked, cfgvars, wrapper, netvars >>

\* The counters, the scratch and the response that end the handler
MainCount ==
    /\ mainpc = "count"
    /\ fingers_count' = Len(templates)
    /\ users_count' = (IF request.cmd = CMD_DELETE_USER THEN Len(users) ELSE users_count)
    /\ data_buffer' = (IF request.cmd = CMD_SAVE_USERTEMPS THEN << >> ELSE data_buffer)
    /\ response' = Reply(CMD_ACK_OK, request, << >>)
    /\ start_enrollment' = FALSE
    /\ mlocal' = NoLocal
    /\ mainpc' = "send"
    /\ UNCHANGED << users, templates, attendance_records, records_count, sessvars,
                    enrvars, conn, inbox, request, tasks, unacked, cfgvars, wrapper, netvars >>

\* The lowest thread slot not in use
FreeSlot == CHOOSE t \in 1..MaxTasks : ~Busy(t) /\ \A u \in 1..MaxTasks : ~Busy(u) => t <= u

\* threading.Thread(target=self.simulate_enrollment_events, args=(conn, self.session_id))
NewTask ==
    [pc |-> "send", k |-> 0, session |-> session_id, live |-> TRUE, ack |-> NoFrame,
     event_data |-> EventData(1, 0), local |-> << >>, cancelled |-> FALSE]

\* conn.send(response), and thread.start() when handle_packet asked for it
MainSend ==
    /\ mainpc = "send" /\ conn \in { "open", "eof" }
    /\ mainpc' = "recv"
    /\ tasks' = (IF start_enrollment THEN [tasks EXCEPT ![FreeSlot] = NewTask] ELSE tasks)
    /\ request' = NoFrame
    /\ response' = NoFrame
    /\ start_enrollment' = FALSE
    /\ UNCHANGED << devvars, sessvars, enrvars, data_buffer, conn, inbox, mlocal,
                    unacked, cfgvars, wrapper, netvars >>

\* conn.send(response) raises once the client is gone: except, conn.close()
MainSendFails ==
    /\ mainpc = "send" /\ conn = "eof"
    /\ CloseConn
    /\ request' = NoFrame
    /\ response' = NoFrame
    /\ start_enrollment' = FALSE
    /\ UNCHANGED << devvars, sessvars, enrvars, data_buffer, cfgvars, wrapper, netvars >>

----------------------------------------------------------------------------
(* simulate_enrollment_events(conn, session_id), one thread per slot t.       *)
(* tasks[t].k counts the events the thread has sent; .ack is what its last    *)
(* recv returned; .live is whether its conn is still the open socket;         *)
(* .cancelled records that CANCELCAPTURE was handled before its final push.   *)

othertasks(t) == [u \in 1..MaxTasks |-> IF u = t THEN IdleTask ELSE tasks[u]]

\* The except branch: "return" inside the loop, fall through to the last
\* statement after it
TaskRaise(t) ==
    tasks' = (IF tasks[t].k + (IF tasks[t].pc = "send" THEN 1 ELSE 0) <= PAIRED
              THEN othertasks(t)
              ELSE [tasks EXCEPT ![t].pc = "clear"])

\* conn.send(event_packet)
TaskSend(t) ==
    /\ tasks[t].pc = "send" /\ tasks[t].live
    /\ tasks' = [tasks EXCEPT ![t].pc = "recv", ![t].k = @ + 1]
    /\ unacked' = (IF conn = "open" THEN Min(unacked + 1, MaxUnacked) ELSE unacked)
    /\ UNCHANGED << devvars, sessvars, enrvars, data_buffer, conn, inbox, mainpc,
                    request, response, start_enrollment, mlocal, cfgvars, wrapper, netvars >>

\* conn.send raises: the socket was closed by run(), or the client is gone
TaskSendFails(t) ==
    /\ tasks[t].pc = "send"
    /\ ~tasks[t].live \/ conn = "eof"
    /\ TaskRaise(t)
    /\ UNCHANGED << devvars, sessvars, enrvars, data_buffer, conn, inbox, mainpc,
                    request, response, start_enrollment, mlocal, unacked, cfgvars, wrapper, netvars >>

\* Where the thread goes once "ack = conn.recv(1024)" returned
AfterRecv(tk, got) ==
    IF tk.k < PAIRED
    THEN [tk EXCEPT !.ack = got, !.pc = "send", !.event_data = EventData(tk.k + 1, 0)]
    ELSE IF tk.k = PAIRED
    THEN [tk EXCEPT !.ack = got, !.pc = "build"]
    ELSE [tk EXCEPT !.ack = got, !.pc = "filter"]

\* ack = conn.recv(1024): whatever frame the connection holds next
TaskRecv(t) ==
    /\ tasks[t].pc = "recv" /\ tasks[t].live /\ inbox # << >>
    /\ tasks' = [tasks EXCEPT ![t] = AfterRecv(tasks[t], Head(inbox))]
    /\ inbox' = Tail(inbox)
    /\ UNCHANGED << devvars, sessvars, enrvars, data_buffer, conn, mainpc, request,
                    response, start_enrollment, mlocal, unacked, cfgvars, wrapper, netvars >>

\* ack = conn.recv(1024) returns b'' once the client has closed
TaskRecvEof(t) ==
    /\ tasks[t].pc = "recv" /\ tasks[t].live /\ inbox = << >> /\ conn = "eof"
    /\ tasks' = [tasks EXCEPT ![t] = AfterRecv(tasks[t], NoFrame)]
    /\ UNCHANGED << devvars, sessvars, enrvars, data_buffer, conn, inbox, mainpc,
                    request, response, start_enrollment, mlocal, unacked, cfgvars, wrapper, netvars >>

\* conn.recv raises: the socket was closed by run()
TaskRecvFails(t) ==
    /\ tasks[t].pc = "recv" /\ ~tasks[t].live
    /\ TaskRaise(t)
    /\ UNCHANGED << devvars, sessvars, enrvars, data_buffer, conn, inbox, mainpc,
                    request, response, start_enrollment, mlocal, unacked, cfgvars, wrapper, netvars >>

\* event_data = struct.pack('<HHH', 0, template_size, self.enrollment_fid), outside
\* any try: a negative finger ends the thread
TaskBuild(t) ==
    /\ tasks[t].pc = "build"
    /\ tasks' = (IF enrollment_fid < 0
                 THEN othertasks(t)
                 ELSE [tasks EXCEPT ![t].pc = "send",
                                    ![t].event_data = EventData(PAIRED + 1, enrollment_fid)])
    /\ UNCHANGED << devvars, sessvars, enrvars, data_buffer, conn, inbox, mainpc,
                    request, response, start_enrollment, mlocal, unacked, cfgvars, wrapper, netvars >>

\* [t for t in self.templates if not (t[0] == self.enrollment_uid and ...)]
TaskFilter(t) ==
    /\ tasks[t].pc = "filter"
    /\ tasks' = [tasks EXCEPT ![t].pc = "assign",
                              ![t].local = RemoveTemplate(templates, enrollment_uid,
                                                          enrollment_fid)]
    /\ UNCHANGED << devvars, sessvars, enrvars, data_buffer, conn, inbox, mainpc,
                    request, response, start_enrollment, mlocal, unacked, cfgvars, wrapper, netvars >>

\* self.templates = <that list>
TaskAssign(t) ==
    /\ tasks[t].pc = "assign"
    /\ templates' = tasks[t].local
    /\ tasks' = [tasks EXCEPT ![t].pc = "append", ![t].local = << >>]
    /\ UNCHANGED << users, attendance_records, users_count, fingers_count, records_count,
                    sessvars, enrvars, data_buffer, conn, inbox, mainpc, request,
                    response, start_enrollment, mlocal, unacked, cfgvars, wrapper, netvars >>

\* self.templates.append((self.enrollment_uid, self.enrollment_fid, 1, template_data))
TaskAppend(t) ==
    /\ tasks[t].pc = "append"
    /\ templates' = Append(templates, Template(enrollment_uid, enrollment_fid, 1,
                                               Zeros(TEMPLATE_SIZE)))
    /\ tasks' = [tasks EXCEPT ![t].pc = "count"]
    /\ UNCHANGED << users, attendance_records, users_count, fingers_count, records_count,
                    sessvars, enrvars, data_buffer, conn, inbox, mainpc, request,
                    response, start_enrollment, mlocal, unacked, cfgvars, wrapper, netvars >>

\* self.fingers_count = len(self.templates)
TaskCount(t) ==
    /\ tasks[t].pc = "count"
    /\ fingers_count' = Len(templates)
    /\ tasks' = [tasks EXCEPT ![t].pc = "clear"]
    /\ UNCHANGED << users, templates, attendance_records, users_count, records_count,
                    sessvars, enrvars, data_buffer, conn, inbox, mainpc, request,
                    response, start_enrollment, mlocal, unacked, cfgvars, wrapper, netvars >>

\* self.enrollment_mode = False, and the thread ends
TaskClear(t) ==
    /\ tasks[t].pc = "clear"
    /\ enrollment_mode' = FALSE
    /\ tasks' = othertasks(t)
    /\ UNCHANGED << devvars, sessvars, enrollment_uid, enrollment_fid, data_buffer, conn,
                    inbox, mainpc, request, response, start_enrollment, mlocal, unacked,
                    cfgvars, wrapper, netvars >>

simulate_enrollment_events(t) ==
    \/ TaskSend(t)
    \/ TaskSendFails(t)
    \/ TaskRecv(t)
    \/ TaskRecvEof(t)
    \/ TaskRecvFails(t)
    \/ TaskBuild(t)
    \/ TaskFilter(t)
    \/ TaskAssign(t)
    \/ TaskAppend(t)
    \/ TaskCount(t)
    \/ TaskClear(t)

----------------------------------------------------------------------------
(* The client of a connection *)

\* The client writes frame f
ClientSend(f) ==
    /\ conn = "open" /\ Len(inbox) < MaxInbox
    /\ inbox' = Append(inbox, f)
    /\ UNCHANGED << devvars, sessvars, enrvars, data_buffer, conn, mainpc, request,
                    response, start_enrollment, mlocal, tasks, unacked, cfgvars, wrapper, netvars >>

\* STARTENROLL requests already sent whose thread has not started yet
Starting ==
    Cardinality({ i \in 1..Len(inbox) : inbox[i].cmd = CMD_STARTENROLL })
        + (IF mainpc \in { "handle", "send" } /\ request.cmd = CMD_STARTENROLL THEN 1 ELSE 0)

Running == Cardinality({ t \in 1..MaxTasks : Busy(t) })

\* Bound: templates the device holds before the client stops enrolling
MaxTemplates == 2

\* STARTENROLL for user id "1", finger fid, while fewer than limit streams run
ClientStartEnroll(limit, fids) ==
    \E fid \in fids :
        /\ Running + Starting < limit
        /\ Len(templates) + Running + Starting < MaxTemplates
        /\ ClientSend(Req(CMD_STARTENROLL, MkEnroll(<< 49 >>, fid, 1)))

\* The OK-shaped frame that acknowledges one pushed event
AckFrame == Frame(CMD_ACK_OK, session_id, 0, << >>)

ClientAck ==
    /\ unacked > 0
    /\ conn = "open" /\ Len(inbox) < MaxInbox
    /\ inbox' = Append(inbox, AckFrame)
    /\ unacked' = unacked - 1
    /\ UNCHANGED << devvars, sessvars, enrvars, data_buffer, conn, mainpc, request,
                    response, start_enrollment, mlocal, tasks, cfgvars, wrapper, netvars >>

ClientCancelCapture ==
    /\ Running + Starting > 0
    /\ request.cmd # CMD_CANCELCAPTURE
    /\ ClientSend(Req(CMD_CANCELCAPTURE, << >>))

\* The client closes its end
ClientClose ==
    /\ conn = "open"
    /\ conn' = "eof"
    /\ UNCHANGED << devvars, sessvars, enrvars, data_buffer, inbox, mainpc, request,
                    response, start_enrollment, mlocal, tasks, unacked, cfgvars, wrapper, netvars >>

\* Fingers the enrolling client asks for
EnrollFids == { 3 }

\* One enrollment at a time; the client acknowledges, cancels, or closes
NextEnroll ==
    \/ MainAccept
    \/ MainRecv
    \/ MainEof
    \/ MainHandle
    \/ MainSend
    \/ MainSendFails
    \/ \E t \in 1..MaxTasks : simulate_enrollment_events(t)
    \/ ClientStartEnroll(1, EnrollFids)
    \/ ClientAck
    \/ ClientCancelCapture
    \/ ClientClose

SpecEnroll == Init /\ [][NextEnroll]_vars

\* Thread t sends an event in this step
Pushes(t) == tasks[t].pc = "send" /\ tasks'[t].pc = "recv"

\* Thread t appends its template in this step
Stores(t) == tasks[t].pc = "append" /\ tasks'[t].pc = "count"

\* The event codes of one stream, by position: 1, 100, 1, 100, 1, 100, then
\* (0, template size) followed by a finger
InOrder(k, event_data) ==
    IF k <= PAIRED
    THEN event_data = (IF k % 2 = 1 THEN << 1, 0 >> ELSE << 100, 0 >>)
    ELSE Len(event_data) = 6 /\ Slice(event_data, 0, 4) = << 0, 0, 0, 2 >>

\* C1: every event a stream pushes is the next one of the order 1, 100, 1, 100,
\* 1, 100, final, and every push after the first follows the receipt of the
\* client's acknowledgment frame for the push before it.
C1_OrderedAckGated ==
    [][\A t \in 1..MaxTasks :
          Pushes(t) =>
              /\ tasks'[t].k = tasks[t].k + 1
              /\ InOrder(tasks'[t].k, tasks[t].event_data)
              /\ tasks[t].k >= 1 => tasks[t].ack.cmd = CMD_ACK_OK]_vars

\* C3: a stream that had not made its final push when CANCELCAPTURE was handled
\* sends no further event and stores no template.
C3_CancelTerminates ==
    [][\A t \in 1..MaxTasks : tasks[t].cancelled => ~Pushes(t) /\ ~Stores(t)]_vars

----------------------------------------------------------------------------
(* A client that starts an enrollment, acknowledges every event it is pushed *)
(* and sends nothing else; the connection stays open.                         *)

EnrollmentRuns(t) ==
    \/ TaskSend(t)
    \/ TaskRecv(t)
    \/ TaskBuild(t)
    \/ TaskFilter(t)
    \/ TaskAssign(t)
    \/ TaskAppend(t)
    \/ TaskCount(t)
    \/ TaskClear(t)

Simulator ==
    \/ MainAccept
    \/ MainRecv
    \/ MainHandle
    \/ MainSend
    \/ \E t \in 1..MaxTasks : EnrollmentRuns(t)

NextAcking ==
    \/ Simulator
    \/ ClientStartEnroll(1, EnrollFids)
    \/ ClientAck

\* Every thread of the simulator that can take a step takes one, and the client
\* acknowledges what it was pushed
SpecAcking ==
    /\ Init /\ [][NextAcking]_vars
    /\ WF_vars(MainAccept) /\ WF_vars(MainRecv) /\ WF_vars(MainHandle) /\ WF_vars(MainSend)
    /\ \A t \in 1..MaxTasks : WF_vars(EnrollmentRuns(t))
    /\ WF_vars(ClientAck)

\* The templates stored under (uid, fid)
Held(uid, fid) ==
    { i \in 1..Len(templates) : templates[i].uid = uid /\ templates[i].fid = fid }

\* What DB RRQ lists holds exactly one template for (uid, fid), of 512 bytes
StoredOnce(uid, fid) ==
    /\ Cardinality(Held(uid, fid)) = 1
    /\ \A i \in Held(uid, fid) : Len(templates[i].tmpl) = TEMPLATE_SIZE

\* C2: once the stream of an enrollment of user id "1" (uid 1), finger f, has
\* started and the client acknowledges every event and sends nothing else, the
\* stream completes: one 512-byte template is held under (1, f) and the
\* enrollment context is cleared.
C2_StreamCompletes ==
    \A f \in EnrollFids :
        ((\E t \in 1..MaxTasks : Busy(t)) /\ enrollment_uid = 1 /\ enrollment_fid = f)
            ~> ((\A t \in 1..MaxTasks : ~Busy(t)) /\ ~enrollment_mode /\ StoredOnce(1, f))

----------------------------------------------------------------------------
(* Template stores side by side: an enrollment thread, and the handlers that *)
(* rewrite self.templates, statement by statement.                            *)

\* An upload of one template for (uid 1, finger 3)
UploadEnrolled == MkUpload(<< >>, MkEntry(2, 1, 19, 0), << 5, 6 >>)

\* The client sends a request that changes templates once a stream has made
\* its final push
ClientMutates(f) ==
    /\ \E t \in 1..MaxTasks : Busy(t) /\ tasks[t].k > PAIRED
    /\ request.cmd # f.cmd
    /\ ClientSend(f)

ClientDeleteUsertemp == ClientMutates(Req(CMD_DELETE_USERTEMP, Pack16(1) \o << 3 >>))

ClientDeleteUser == ClientMutates(Req(CMD_DELETE_USER, Pack16(1)))

\* The upload is sent while the stream waits for its last paired acknowledgment
ClientData ==
    /\ data_buffer = << >>
    /\ \E t \in 1..MaxTasks : Busy(t) /\ tasks[t].k = PAIRED
    /\ request.cmd # CMD_DATA
    /\ ClientSend(Req(CMD_DATA, UploadEnrolled))

ClientSaveUsertemps ==
    /\ data_buffer # << >>
    /\ Len(templates) + Running + Starting <= MaxTemplates
    /\ ClientMutates(Req(CMD_SAVE_USERTEMPS, << >>))

NextStore ==
    \/ MainAccept
    \/ MainRecv
    \/ MainHandle
    \/ MainBegin
    \/ MainFilter
    \/ MainAssign
    \/ MainAppend
    \/ MainCount
    \/ MainSend
    \/ \E t \in 1..MaxTasks : EnrollmentRuns(t)
    \/ ClientStartEnroll(1, EnrollFids)
    \/ ClientAck
    \/ ClientDeleteUsertemp
    \/ ClientDeleteUser
    \/ ClientData
    \/ ClientSaveUsertemps

SpecStore == Init /\ [][NextStore]_vars

\* C5: the template set holds at most one record per (uid, finger index), in
\* every state, whatever the interleaving of enrollment stores and handlers.
C5_TemplateKeysUnique ==
    \A i, j \in 1..Len(templates) :
        templates[i].uid = templates[j].uid /\ templates[i].fid = templates[j].fid => i = j


----------------------------------------------------------------------------
(* Properties of SAVE USERTEMPS *)

\* The key of a template
Key(t) == << t.uid, t.fid >>

C12_BlocksCoverScratch ==
    [][(Served(CMD_SAVE_USERTEMPS) /\ Len(data_buffer) >= 12) =>
          /\ Len(UserBlock(data_buffer)) = UpackSize(data_buffer)
          /\ Len(TableBlock(data_buffer)) = TableSize(data_buffer)
          /\ Len(FpackBlock(data_buffer)) = FpackSize(data_buffer)
          /\ 12 + UpackSize(data_buffer) + TableSize(data_buffer)
                 + FpackSize(data_buffer) = Len(data_buffer)]_vars


----------------------------------------------------------------------------
(* Sessions: CONNECT, AUTH and EXIT, commands outside the dispatch table and  *)
(* packets under a wrong top, on a simulator with or without a device         *)
(* password.  The client chooses the session field and the reply id.          *)

\* Bound: the device password of a protected simulator
DevicePassword == 12345

Passwords == { 0, DevicePassword }

\* Bound: a session id the client makes up
ClientSession == 5

\* Session fields of the requests: none, the client's own, the one the
\* simulator holds
SessionFields == { 0, ClientSession, session_id }

\* Reply ids of the requests
ReplyIds == { 0, ReplyId }

\* Packet p arrives: some session field, some reply id
Ask(cmd, data) ==
    \E s \in SessionFields, r \in ReplyIds : Serve(Frame(cmd, s, r, data))

\* AUTH payloads: a 4-byte commkey, another one, none
Challenges == { Pack32(0), << 239, 190, 173, 222 >>, << >> }

\* Command codes no branch of the dispatch names
UnknownCommands == { 0, CMD_RESTART, CMD_POWEROFF, CMD_ACK_OK }

\* Tops whose first or second word is not the magic word
BadTops == { << MACHINE_PREPARE_DATA_1, 0 >>, << 0, MACHINE_PREPARE_DATA_2 >> }

Connect == Ask(CMD_CONNECT, << >>)
Auth == \E d \in Challenges : Ask(CMD_AUTH, d)
Exit == Ask(CMD_EXIT, << >>)
PlainCommand ==
    \E cmd \in { CMD_ENABLEDEVICE, CMD_DISABLEDEVICE, CMD_FREE_DATA, CMD_STARTVERIFY,
                 CMD_UNLOCK, CMD_TESTVOICE, CMD_REFRESHDATA } : Ask(cmd, << >>)
UnknownCommand == \E cmd \in UnknownCommands : Ask(cmd, << >>)
BadMagic ==
    \E top \in BadTops, s \in SessionFields, r \in ReplyIds :
        Serve(Packet(top[1], top[2], Frame(CMD_CONNECT, s, r, << >>)))
SessionRead == \E cmd \in { CMD_GET_FREE_SIZES, CMD_USERTEMP_RRQ } : Ask(cmd, << >>)
SessionPrepare == \E d \in PrepareDataPayloads : Ask(CMD_PREPARE_DATA, d)
SessionData ==
    /\ Len(data_buffer) + Len(UploadBulk) <= MaxBuf
    /\ Ask(CMD_DATA, UploadBulk)

NextSession ==
    \/ Accept
    \/ Disconnect
    \/ Connect
    \/ Auth
    \/ Exit
    \/ PlainCommand
    \/ UnknownCommand
    \/ BadMagic
    \/ SessionRead
    \/ SessionPrepare
    \/ SessionData

SpecSession == (\E pw \in Passwords : Started(pw)) /\ [][NextSession]_vars

\* The packet of this step carries the magic words, the command is cmd, and the
\* connection stays open
Dispatched(cmd) ==
    /\ Served(cmd)
    /\ request'.magic1 = MACHINE_PREPARE_DATA_1
    /\ request'.magic2 = MACHINE_PREPARE_DATA_2

\* C13: session state is per connection: when a connection is accepted its
\* scratch is empty, its enrollment context is inactive and it is not yet
\* authenticated, whatever earlier connections did; when a connection is closed
\* its scratch and enrollment context are discarded.
C13_SessionPerConnection ==
    [][/\ (conn = "listening" /\ conn' = "open") =>
              data_buffer' = << >> /\ ~enrollment_mode' /\ ~is_authenticated'
       /\ (conn = "open" /\ conn' = "listening") =>
              data_buffer' = << >> /\ ~enrollment_mode']_vars


\* A packet is received in this step and handle_packet returns a response to it
Answered ==
    /\ conn = "open" /\ mainpc = "recv"
    /\ request' # NoFrame
    /\ response' # NoFrame /\ response' # Raised

\* C14: every response to a request carries the reply id of that request, for
\* every command code, those outside the dispatch table included, and for OK,
\* ERROR, UNAUTH and DATA responses alike.
C14_ReplyIdEchoed ==
    [][Answered =>
          /\ response'.reply = request'.reply
          /\ response'.cmd \in { CMD_ACK_OK, CMD_ACK_ERROR, CMD_ACK_UNAUTH, CMD_DATA }]_vars

\* A command outside the dispatch table, sent with a reply id of its own, was
\* answered ERROR under that reply id
C14_Witness ==
    /\ conn = "open"
    /\ request.cmd \in UnknownCommands /\ request.reply = ReplyId
    /\ response.cmd = CMD_ACK_ERROR /\ response.reply = ReplyId


\* C15: after CONNECT has assigned session identifier S on a connection, the
\* response to the next request on it carries S in its session field, also when
\* the request's own session field differs from S (a CONNECT or an AUTH, which
\* assign an identifier themselves, left aside).
C15_ResponsesCarryAssigned ==
    [][(/\ conn = "open"
        /\ request.cmd = CMD_CONNECT
        /\ request.magic1 = MACHINE_PREPARE_DATA_1
        /\ request.magic2 = MACHINE_PREPARE_DATA_2
        /\ response.cmd \in { CMD_ACK_OK, CMD_ACK_UNAUTH }
        /\ Answered
        /\ request'.cmd \notin { CMD_CONNECT, CMD_AUTH }) =>
           response'.session = session_id]_vars


\* C16: CONNECT assigns a session identifier that is not 0, and is 1000 when the
\* request's session field is 0; the response to CONNECT carries the assigned
\* identifier in its session field.
C16_ConnectAssignsSession ==
    [][Dispatched(CMD_CONNECT) =>
          /\ session_id' # 0
          /\ request'.session = 0 => session_id' = 1000
          /\ response'.session = session_id'
          /\ response'.cmd \in { CMD_ACK_OK, CMD_ACK_UNAUTH }]_vars

\* A CONNECT with session field 0 was answered under session 1000
C16_Witness ==
    /\ conn = "open"
    /\ request.cmd = CMD_CONNECT /\ request.session = 0
    /\ request.magic1 = MACHINE_PREPARE_DATA_1 /\ request.magic2 = MACHINE_PREPARE_DATA_2
    /\ session_id = 1000
    /\ response.cmd = CMD_ACK_OK /\ response.session = 1000


\* C17: CONNECT is answered UNAUTH exactly when a device password is configured
\* and OK otherwise; AUTH is answered OK for every challenge payload; the
\* session becomes authenticated exactly by a CONNECT answered OK or by an AUTH,
\* and a CONNECT answered UNAUTH does not make it authenticated.
C17_ConnectAndAuth ==
    [][/\ Dispatched(CMD_CONNECT) =>
              /\ response'.cmd = (IF password # 0 THEN CMD_ACK_UNAUTH ELSE CMD_ACK_OK)
              /\ response'.cmd = CMD_ACK_OK => is_authenticated'
              /\ response'.cmd = CMD_ACK_UNAUTH => is_authenticated' = is_authenticated
       /\ Dispatched(CMD_AUTH) =>
              response'.cmd = CMD_ACK_OK /\ is_authenticated'
       /\ (~is_authenticated /\ is_authenticated') =>
              \/ Dispatched(CMD_CONNECT) /\ response'.cmd = CMD_ACK_OK
              \/ Dispatched(CMD_AUTH)]_vars

\* On a simulator with a device password a CONNECT was answered UNAUTH and the
\* session is not authenticated
C17_Witness ==
    /\ password = DevicePassword
    /\ conn = "open"
    /\ request.cmd = CMD_CONNECT
    /\ request.magic1 = MACHINE_PREPARE_DATA_1 /\ request.magic2 = MACHINE_PREPARE_DATA_2
    /\ response.cmd = CMD_ACK_UNAUTH
    /\ ~is_authenticated


\* C18: after EXIT is answered OK the session is closed: the connection is
\* closed with the step that answers EXIT, and no request received on it is
\* dispatched afterwards.
C18_ExitCloses ==
    [][/\ (/\ conn = "open" /\ mainpc = "recv"
           /\ request'.cmd = CMD_EXIT
           /\ request'.magic1 = MACHINE_PREPARE_DATA_1
           /\ request'.magic2 = MACHINE_PREPARE_DATA_2
           /\ response'.cmd = CMD_ACK_OK) => conn' # "open"
       /\ (/\ conn = "open"
           /\ request.cmd = CMD_EXIT
           /\ request.magic1 = MACHINE_PREPARE_DATA_1
           /\ request.magic2 = MACHINE_PREPARE_DATA_2
           /\ response.cmd = CMD_ACK_OK) => request' = NoFrame]_vars


\* Frame f carries the magic words and a command no branch of the dispatch names
Unknown(f) ==
    /\ f # NoFrame
    /\ f.magic1 = MACHINE_PREPARE_DATA_1 /\ f.magic2 = MACHINE_PREPARE_DATA_2
    /\ f.cmd \notin DispatchTable

\* C19: a command code that is not in the dispatch table is answered ERROR with
\* the request's session and reply identifiers, leaves the device model and the
\* session state as they were, and leaves the connection open: a CONNECT that
\* follows on it is answered as on a new connection, OK when no device password
\* is configured.
C19_UnknownCommand ==
    [][/\ (conn = "open" /\ mainpc = "recv" /\ Unknown(request')) =>
              /\ response' = Frame(CMD_ACK_ERROR, request'.session, request'.reply, << >>)
              /\ UNCHANGED << devvars, sessvars, enrvars, data_buffer >>
              /\ conn' = "open" /\ mainpc' = "recv"
       /\ (/\ conn = "open" /\ Unknown(request) /\ response.cmd = CMD_ACK_ERROR
           /\ Dispatched(CMD_CONNECT)) =>
              response'.cmd = (IF password = 0 THEN CMD_ACK_OK ELSE CMD_ACK_UNAUTH)]_vars

\* A command outside the dispatch table was answered ERROR on a connection that
\* is authenticated and holds an upload in its scratch, and both are as before
C19_Witness ==
    /\ conn = "open" /\ mainpc = "recv"
    /\ Unknown(request) /\ request.cmd = CMD_RESTART /\ request.session = ClientSession
    /\ response = Frame(CMD_ACK_ERROR, ClientSession, request.reply, << >>)
    /\ is_authenticated /\ session_id = 1000
    /\ data_buffer = UploadBulk


\* C20: in TCP mode a packet whose two leading words are not 0x5050 and 0x7D82
\* is rejected without being dispatched, and the connection is dropped with it,
\* so that no later packet on that connection is handled.
C20_BadMagicDrops ==
    [][(/\ use_tcp
        /\ conn = "open" /\ mainpc = "recv"
        /\ request' # NoFrame
        /\ (request'.magic1 # MACHINE_PREPARE_DATA_1
               \/ request'.magic2 # MACHINE_PREPARE_DATA_2)) =>
           /\ response' = NoFrame
           /\ UNCHANGED << devvars, sessvars, enrvars, data_buffer >>
           /\ conn' # "open"]_vars


----------------------------------------------------------------------------
(* Properties of payload sizes and layouts *)

\* C21: a request whose payload size does not match the layout of its command
\* (USER WRQ of neither 28 nor 72 bytes, DELETE USER under 2 bytes, DELETE
\* USERTEMP under 3 bytes, STARTENROLL not of 26 bytes) is answered ERROR, leaves
\* the device model and the enrollment context as they were, and launches no
\* enrollment event stream.
C21_BadPayloadRejected ==
    [][(\/ Served(CMD_USER_WRQ) /\ Len(request'.data) \notin { 28, 72 }
        \/ Served(CMD_DELETE_USER) /\ Len(request'.data) < 2
        \/ Served(CMD_DELETE_USERTEMP) /\ Len(request'.data) < 3
        \/ Served(CMD_STARTENROLL) /\ Len(request'.data) # 26) =>
           /\ response'.cmd = CMD_ACK_ERROR
           /\ UNCHANGED << devvars, enrvars >>
           /\ ~start_enrollment']_vars

\* C22: USER WRQ selects the record layout by payload length: after a 72-byte
\* payload the user set holds the record the 72-byte layout decodes (8-byte
\* password, 24-byte name, 24-byte user-id), after a 28-byte payload the record
\* the 28-byte layout decodes.
C22_LayoutByLength ==
    [][Served(CMD_USER_WRQ) =>
          /\ Len(request'.data) = 72 =>
                 \E i \in 1..Len(users') : users'[i] = Unpack72(request'.data)
          /\ Len(request'.data) = 28 =>
                 \E i \in 1..Len(users') : users'[i] = Unpack28(request'.data)]_vars


----------------------------------------------------------------------------
(* Properties of the enrollment stream and of the single-template read *)

\* The send or the recv of thread t raises in this step
Fails(t) ==
    /\ tasks[t].pc \in { "send", "recv" }
    /\ tasks'[t].pc \in { "idle", "clear" }

\* C23: if a send or a receive of the enrollment stream fails, at any of the six
\* paired pushes or at the final push, the stream pushes no further event and
\* stores no template, and the enrollment context is cleared: the thread ends
\* with enrollment no longer active.
C23_FailureClearsContext ==
    [][\A t \in 1..MaxTasks :
          /\ Fails(t) => templates' = templates
          /\ (Fails(t) /\ tasks'[t].pc = "idle") => ~enrollment_mode']_vars


----------------------------------------------------------------------------
(* The read requests: GET USERTEMP, PREPARE BUFFER, SET TIME *)

\* GET USERTEMP payloads '<Hb' of (uid, finger): three keys, and a 2-byte payload
GetUsertempPayloads ==
    { Pack16(4) \o << 0 >>, Pack16(4) \o << 1 >>, Pack16(2) \o << 0 >>, << 4, 0 >> }

\* The 11 bytes '<bhii' of (1, command, fct, ext) a client sends with PREPARE BUFFER
MkPrepareBuffer(command, fct) == << 1 >> \o Pack16(command) \o Pack32(fct) \o Pack32(0)

\* PREPARE BUFFER payloads: the three function types, two others, a 7-byte payload
PrepareBufferPayloads ==
    { MkPrepareBuffer(CMD_DB_RRQ, fct) : fct \in { FCT_USER, FCT_FINGERTMP, FCT_ATTLOG, 0, 3 } }
        \cup { << 1, 7, 0, 5, 0, 0, 0 >> }

\* SET TIME payloads: 2000-01-01 00:00:00, 2000-01-01 00:01:01, the value that
\* divides into the thirtieth of February 2000, and a 2-byte payload
SetTimePayloads == { Pack32(0), Pack32(61), Pack32(60 * 86400), << 1, 2 >> }

\* An upload of one template whose finger number is below the internal offset
UploadLow == MkUpload(<< >>, MkEntry(2, 2, 128, 0), << 6 >>)

GetUsertemp == \E d \in GetUsertempPayloads : Serve(Req(CMD_GET_USERTEMP, d))
PrepareBuffer == \E d \in PrepareBufferPayloads : Serve(Req(CMD_PREPARE_BUFFER, d))
SetTime == \E d \in SetTimePayloads : Serve(Req(CMD_SET_TIME, d))

\* Uploads and deletions, and the reads between them
NextQuery ==
    \/ Accept
    \/ Disconnect
    \/ Data({ UploadFingers, UploadTable, UploadLow })
    \/ SaveUsertemps
    \/ DeleteUser
    \/ DeleteUsertemp
    \/ UsertempRrq
    \/ DbRrq
    \/ AttlogRrq
    \/ GetUsertemp
    \/ PrepareBuffer
    \/ SetTime

SpecQuery == Init /\ [][NextQuery]_vars

\* C24: GET USERTEMP {uid, finger} is answered with a DATA frame that carries the
\* stored blob exactly when the template set holds a record for (uid, finger),
\* and with ERROR otherwise (a record that DELETE USERTEMP or DELETE USER
\* removed included); the request never changes the device model.
C24_GetUsertemp ==
    [][Served(CMD_GET_USERTEMP) /\ Len(request'.data) >= 3 =>
          LET held == Held(U16(request'.data, 0), S8(request'.data[3]))
          IN  /\ UNCHANGED devvars
              /\ held # {} =>
                     /\ response'.cmd = CMD_DATA
                     /\ \E i \in held :
                            Slice(response'.data, 0, Len(templates[i].tmpl)) = templates[i].tmpl
              /\ held = {} => response'.cmd = CMD_ACK_ERROR]_vars

\* (4, 0) is uploaded together with (4, 1) only: it was deleted since, and asked for
C24_Witness ==
    /\ request.cmd = CMD_GET_USERTEMP
    /\ request.data = Pack16(4) \o << 0 >>
    /\ response.cmd = CMD_ACK_ERROR
    /\ Held(4, 1) # {}
    /\ Held(4, 0) = {}


\* The request of this step is PREPARE BUFFER with a full payload and function type fct
Prepares(fct) ==
    /\ conn = "open" /\ mainpc = "recv"
    /\ request'.cmd = CMD_PREPARE_BUFFER
    /\ Len(request'.data) >= 11
    /\ U32(request'.data, 3) = fct

\* The response of this step has the outcome of the previous request, which was
\* cmd: the same command and payload, or both handlers raised
SameAs(cmd) ==
    request.cmd = cmd => response'.cmd = response.cmd /\ response'.data = response.data

----------------------------------------------------------------------------
(* STARTENROLL and the enrollment context *)

\* User-id strings of STARTENROLL: "22" (no seed user's id; the id USER WRQ gives
\* uid 2), "x" (not a number)
EnrollUserIds == { << 50, 50 >>, << 120 >> }

\* The client asks for an enrollment while fewer than two are under way
ClientEnrolls ==
    \E user_id \in EnrollUserIds, fid \in { 3, 4 } :
        /\ Running + Starting < 2
        /\ Len(templates) + Running + Starting < MaxTemplates
        /\ ClientSend(Req(CMD_STARTENROLL, MkEnroll(user_id, fid, 1)))

\* The client rewrites seed uid 2 with the user id 22
ClientWritesUser ==
    /\ Running + Starting = 0
    /\ \A i \in 1..Len(users) : users[i].user_id # 22
    /\ request.cmd # CMD_USER_WRQ
    /\ ClientSend(Req(CMD_USER_WRQ, MkUser28(2, 14, Pw12345, NameBob, 7, 1, 22)))

\* The client acknowledges the events of a stream that runs alone
ClientAcksAlone == Running <= 1 /\ ClientAck

NextStart ==
    \/ MainAccept
    \/ MainRecv
    \/ MainEof
    \/ MainHandle
    \/ MainSend
    \/ MainSendFails
    \/ \E t \in 1..MaxTasks : simulate_enrollment_events(t)
    \/ ClientEnrolls
    \/ ClientWritesUser
    \/ ClientAcksAlone
    \/ ClientClose

SpecStart == Init /\ [][NextStart]_vars

\* The request loop handles a request of command cmd in this step
Handles(cmd) == mainpc = "handle" /\ mainpc' = "send" /\ request.cmd = cmd

\* C26: STARTENROLL with a 26-byte payload resolves the target uid as the uid of
\* the first user whose user id equals the request's user-id string, else the
\* numeric value of that string, else 1; it sets the enrollment context to
\* {active, that uid, the request's finger}, whatever the context was, and is
\* answered OK.
C26_StartEnrollResolves ==
    [][Handles(CMD_STARTENROLL) /\ Len(request.data) = 26 =>
          LET user_id == RStrip0(Slice(request.data, 0, 24))
              named == { i \in 1..Len(users) : Str(users[i].user_id) = user_id }
          IN  /\ enrollment_mode'
              /\ enrollment_fid' = S8(request.data[25])
              /\ \A i \in named :
                     (\A j \in named : i <= j) => enrollment_uid' = users[i].uid
              /\ (named = {} /\ IsDigit(user_id)) => enrollment_uid' = ParseInt(user_id)
              /\ (named = {} /\ ~IsDigit(user_id)) => enrollment_uid' = 1
              /\ response'.cmd = CMD_ACK_OK]_vars

\* "22" has resolved to uid 2 and replaced the context of a running stream
C26_Witness ==
    /\ mainpc = "send"
    /\ request.cmd = CMD_STARTENROLL
    /\ request.data = MkEnroll(<< 50, 50 >>, 4, 1)
    /\ enrollment_mode /\ enrollment_uid = 2 /\ enrollment_fid = 4
    /\ \E t \in 1..MaxTasks : Busy(t)


\* C27: SET TIME with any 4-byte value is answered OK, keeps the connection
\* open, and changes nothing in the device model or the session state.
C27_SetTimeAccepted ==
    [][(/\ conn = "open" /\ mainpc = "recv"
        /\ request'.cmd = CMD_SET_TIME
        /\ Len(request'.data) = 4) =>
           /\ response'.cmd = CMD_ACK_OK
           /\ conn' = "open"
           /\ UNCHANGED << devvars, sessvars, enrvars, data_buffer >>]_vars


----------------------------------------------------------------------------
(* The listener in TCP mode and in UDP mode *)

\* UDP mode: data, addr = sock.recvfrom(1024) returned frame f;
\* handle_packet(data); sock.sendto(response, addr).  The loop has no except
\* branch: a handler that raises leaves run() through "finally: sock.close()".
Recvfrom(f) ==
    /\ ~use_tcp /\ mainpc = "recvfrom"
    /\ request' = f
    /\ handle_packet(f)
    /\ mainpc' = (IF response' = Raised THEN "stopped" ELSE "recvfrom")
    /\ UNCHANGED << conn, inbox, mlocal, tasks, unacked, cfgvars, wrapper, netvars >>

\* One pass of "while length > 1": the word at byte offset 2 * i is added, and
\* USHRT_MAX subtracted once if the sum exceeds it
AddWord(packet, i, checksum) ==
    LET sum == checksum + U16(packet, 2 * i)
    IN  IF sum > USHRT_MAX THEN sum - USHRT_MAX ELSE sum

\* The accumulator after passes lo .. hi - 1 of the loop, taken in order from
\* checksum.  The range is halved, and the first half's value tested, only to
\* keep the evaluation shallow: the accumulator is never negative.
RECURSIVE SumWords(_, _, _, _)
SumWords(packet, lo, hi, checksum) ==
    IF hi <= lo THEN checksum
    ELSE IF hi = lo + 1 THEN AddWord(packet, lo, checksum)
    ELSE LET mid == (lo + hi) \div 2
             half == SumWords(packet, lo, mid, checksum)
         IN  IF half >= 0 THEN SumWords(packet, mid, hi, half) ELSE half

\* "while checksum > USHRT_MAX: checksum -= USHRT_MAX"
RECURSIVE Lowered(_)
Lowered(checksum) == IF checksum > USHRT_MAX THEN Lowered(checksum - USHRT_MAX) ELSE checksum

\* "while checksum < 0: checksum += USHRT_MAX"
RECURSIVE Raise(_)
Raise(checksum) == IF checksum < 0 THEN Raise(checksum + USHRT_MAX) ELSE checksum

\* Faulty variant: the odd last byte is left out of the sum
create_checksum_of_words(packet) ==
    Raise(-Lowered(SumWords(packet, 0, Len(packet) \div 2, 0)) - 1)

\* The number struct.pack('H', checksum) packs: the words, "if length" the odd
\* last byte, the two while loops around ~checksum (which is -checksum - 1)
create_checksum(packet) ==
    LET words == SumWords(packet, 0, Len(packet) \div 2, 0)
        checksum == IF Len(packet) % 2 = 1 THEN words + packet[Len(packet)] ELSE words
    IN  Raise(-Lowered(checksum) - 1)

\* The inner packet: '<4H' of (command, checksum, session_id, reply_id), then data
create_header(command, session, reply_id, data) ==
    LET buf == Pack16(command) \o Pack16(0) \o Pack16(session) \o Pack16(reply_id) \o data
    IN  Pack16(command) \o Pack16(create_checksum(buf)) \o Pack16(session)
            \o Pack16(reply_id) \o data

\* Faulty variant: the length counts the envelope too
create_tcp_top_whole(packet) ==
    Pack16(MACHINE_PREPARE_DATA_1) \o Pack16(MACHINE_PREPARE_DATA_2)
        \o Pack32(Len(packet) + 8) \o packet

\* '<HHI' of (magic, magic, len(packet)), then the packet
create_tcp_top(packet) ==
    Pack16(MACHINE_PREPARE_DATA_1) \o Pack16(MACHINE_PREPARE_DATA_2)
        \o Pack32(Len(packet)) \o packet

\* The bytes sent for frame f: create_header, and create_tcp_top "if self.use_tcp"
Wire(f) ==
    LET packet == create_header(f.cmd, f.session, f.reply, f.data)
    IN  IF use_tcp THEN create_tcp_top(packet) ELSE packet

\* What handle_packet reads in the bytes of a packet: None, or the fields of the
\* inner header and the data behind it
Parse(packet) ==
    LET inner == IF use_tcp THEN From(packet, 8) ELSE packet
    IN  IF use_tcp /\ (\/ Len(packet) < 8
                       \/ U16(packet, 0) # MACHINE_PREPARE_DATA_1
                       \/ U16(packet, 2) # MACHINE_PREPARE_DATA_2)
        THEN NoFrame
        ELSE IF Len(inner) < 8 THEN NoFrame
        ELSE Frame(U16(inner, 0), U16(inner, 4), U16(inner, 6), From(inner, 8))

\* Frames a client sends the listener: well-formed requests, an unknown command,
\* payloads of a wrong size, an upload whose template DB RRQ cannot pack, and a
\* timestamp of no calendar date
ListenerFrames ==
    { Req(CMD_CONNECT, << >>), Req(CMD_POWEROFF, << >>), Req(CMD_DB_RRQ, << >>),
      Req(CMD_SAVE_USERTEMPS, << >>), Req(CMD_DATA, UploadLow),
      Req(CMD_DATA, UploadTable) }
        \cup { Req(CMD_SET_TIME, d) : d \in SetTimePayloads }
        \cup { Req(CMD_USER_WRQ, d) : d \in UserWrqPayloads }
        \cup { Req(CMD_PREPARE_BUFFER, d) : d \in PrepareBufferPayloads }

\* A frame whose first four bytes are not the TCP magic
BadTop == Packet(0, MACHINE_PREPARE_DATA_2, Req(CMD_GET_FREE_SIZES, << >>))

Fits(f) == f.cmd = CMD_DATA => Len(data_buffer) + Len(f.data) <= MaxBuf

TcpFrame == \E f \in ListenerFrames \cup { BadTop } : Fits(f) /\ Serve(f)
UdpFrame == \E f \in ListenerFrames : Fits(f) /\ Recvfrom(f)

NextListener ==
    \/ Accept
    \/ Disconnect
    \/ TcpFrame
    \/ UdpFrame

SpecListener == (\E tcp \in BOOLEAN : Listening(0, tcp)) /\ [][NextListener]_vars

\* C28: no error is fatal to the process: after any malformed frame, unknown
\* command, bad payload, failing handler or transport error, in TCP mode and in
\* UDP mode, the listener keeps running: it never leaves its loop.
C28_ListenerKeepsRunning == mainpc # "stopped"


----------------------------------------------------------------------------
(* Properties of the bytes on the wire *)

\* The frames the simulator emits in this state: its response, and the events
\* an enrollment stream of this session and finger pushes
Emitted ==
    (IF response \in { NoFrame, Raised } THEN {} ELSE { response })
        \cup { Frame(CMD_REG_EVENT, session_id, 0, EventData(k, enrollment_fid)) :
                   k \in 1..(PAIRED + 1) }

\* C29: every frame the simulator emits in TCP mode, response or enrollment
\* event, is the 8-byte envelope 50 50 82 7D plus a little-endian 32-bit length
\* followed by the inner packet, where the length is the inner packet's byte
\* count, 8 + payload length, and does not count the envelope; the simulator's
\* own parser reads the same command, session id, reply id and payload in it; in
\* UDP mode the bytes are the inner packet with no envelope.
C29_Envelope ==
    \A f \in Emitted :
        LET bytes == Wire(f)
            inner == IF use_tcp THEN From(bytes, 8) ELSE bytes
        IN  /\ use_tcp => /\ Slice(bytes, 0, 4) = << 80, 80, 130, 125 >>
                          /\ U32(bytes, 4) = Len(bytes) - 8
                          /\ U32(bytes, 4) = 8 + Len(f.data)
            /\ ~use_tcp => Len(bytes) = 8 + Len(f.data)
            /\ << U16(inner, 0), U16(inner, 4), U16(inner, 6) >> = << f.cmd, f.session, f.reply >>
            /\ From(inner, 8) = f.data
            /\ Parse(bytes) = f

\* A list of users has been sent in TCP mode
C29_Witness ==
    /\ response.cmd = CMD_DATA
    /\ Len(response.data) = 4 + 72 * Len(users)
    /\ response \in Emitted
    /\ Len(Wire(response)) = Len(response.data) + (IF use_tcp THEN 16 ELSE 8)
    /\ use_tcp


\* The stated procedure on a packet p: the sum of the little-endian 16-bit words
\* and of an odd trailing byte as a low byte, less 0xFFFF while it exceeds
\* 0xFFFF, then the bitwise NOT plus 0xFFFF until it is not negative
RECURSIVE WordSum(_, _, _)
WordSum(p, first, last) ==
    IF first > last THEN 0
    ELSE IF first = last THEN p[2 * first - 1] + 256 * p[2 * first]
    ELSE WordSum(p, first, (first + last) \div 2)
             + WordSum(p, ((first + last) \div 2) + 1, last)

StatedChecksum(p) ==
    LET total == WordSum(p, 1, Len(p) \div 2) + (IF Len(p) % 2 = 1 THEN p[Len(p)] ELSE 0)
        kept == IF total > 65535 THEN ((total - 1) % 65535) + 1 ELSE total
        inverted == -kept - 1
    IN  IF inverted + 65535 >= 0 THEN inverted + 65535 ELSE inverted + 2 * 65535

\* The inner packet of the bytes sent for frame f
InnerPacket(f) == IF use_tcp THEN From(Wire(f), 8) ELSE Wire(f)

\* C30: for every inner packet, of even or of odd length, the computed checksum
\* is a value in 0..0xFFFF equal to the result of the stated procedure, and the
\* checksum field of every frame the simulator emits holds that value, computed
\* over the frame's own header with the checksum field zeroed and its payload.
C30_Checksum ==
    \A f \in Emitted :
        LET inner == InnerPacket(f)
            zeroed == [i \in 1..Len(inner) |-> IF i \in { 3, 4 } THEN 0 ELSE inner[i]]
        IN  /\ create_checksum(zeroed) \in 0..65535
            /\ create_checksum(zeroed) = StatedChecksum(zeroed)
            /\ U16(inner, 2) = StatedChecksum(zeroed)

\* A list of two templates has been sent: an inner packet of 29 bytes whose last
\* byte is not zero
C30_Witness ==
    /\ response.cmd = CMD_DATA
    /\ response \in Emitted
    /\ Len(InnerPacket(response)) = 29
    /\ InnerPacket(response)[29] # 0


----------------------------------------------------------------------------
(* The clock *)

GetTime == Serve(Req(CMD_GET_TIME, << >>))

\* The client sets the time it has just read
SetTimeRead ==
    /\ request.cmd = CMD_GET_TIME /\ response.cmd = CMD_ACK_OK
    /\ Serve(Req(CMD_SET_TIME, response.data))

NextClock ==
    \/ Accept
    \/ Disconnect
    \/ GetTime
    \/ SetTime
    \/ SetTimeRead

SpecClock == Init /\ [][NextClock]_vars

\* C31: for every valid datetime t with year in 2000..2099, encode_time(t) is a
\* value below 2^32 and decode_time(encode_time(t)) = t: whichever datetime of
\* the clock GET TIME has encoded in its response, decoding the response's four
\* bytes gives that datetime.
C31_TimeRoundTrip ==
    [][Served(CMD_GET_TIME) =>
          \A t \in Clock :
              /\ encode_time(t)[1] <= USHRT_MAX
              /\ response'.data = PackTime(encode_time(t)) =>
                     decode_time(UnpackTime(response'.data)) = t]_vars

\* The last second of 2099 has been encoded: a value above 2^31
C31_Witness ==
    /\ request.cmd = CMD_GET_TIME
    /\ response.cmd = CMD_ACK_OK
    /\ decode_time(UnpackTime(response.data)) = Datetime(2099, 12, 31, 23, 59, 59)
    /\ U16(response.data, 2) >= 32768


----------------------------------------------------------------------------
(* PyZKWrapper: the data operations that disable the device *)

\* The operations whose body is disable_device, one device call, enable_device
DisablingOps ==
    { "get_users_json", "get_attendance_json", "add_user", "delete_user",
      "clear_attendance", "get_templates_json", "get_user_template_json",
      "delete_user_template", "clear_data" }

simvars ==
    << devvars, sessvars, enrvars, data_buffer, conn, mainpc, request, response,
       start_enrollment, threadvars, cfgvars, netvars >>

\* connect(): self.zk.connect() returns or raises
WrapperConnect ==
    /\ wrapper.pc = "idle" /\ ~wrapper.is_connected
    /\ \E ok \in BOOLEAN : wrapper' = [wrapper EXCEPT !.is_connected = ok]
    /\ UNCHANGED simvars

\* disconnect(): self.conn.disconnect() returns or raises
WrapperDisconnect ==
    /\ wrapper.pc = "idle" /\ wrapper.is_connected
    /\ \E ok \in BOOLEAN : wrapper' = [wrapper EXCEPT !.is_connected = ~ok]
    /\ UNCHANGED simvars

\* A data operation is called (delete_user with a uid): "Not connected to
\* device" is returned at once when the wrapper is not connected
WrapperCall ==
    /\ wrapper.pc = "idle"
    /\ \E op \in DisablingOps :
           wrapper' = [NewWrapper EXCEPT
                           !.is_connected = wrapper.is_connected,
                           !.op = op,
                           !.pc = IF wrapper.is_connected THEN "disable" ELSE "returned",
                           !.result = IF wrapper.is_connected THEN "none" ELSE "failure"]
    /\ UNCHANGED simvars

\* self.conn.disable_device() in the try block
WrapperDisable ==
    /\ wrapper.pc = "disable"
    /\ \E ok \in BOOLEAN :
           wrapper' = [wrapper EXCEPT
                           !.disable_calls = @ + 1,
                           !.pc = IF ok THEN "device" ELSE "except",
                           !.error = IF ok THEN @ ELSE "disable_device"]
    /\ UNCHANGED simvars

\* The device call of the operation: get_users, set_user, delete_user, ...
WrapperDevice ==
    /\ wrapper.pc = "device"
    /\ \E ok \in BOOLEAN :
           wrapper' = [wrapper EXCEPT
                           !.pc = IF ok THEN "enable" ELSE "except",
                           !.error = IF ok THEN @ ELSE "device"]
    /\ UNCHANGED simvars

\* self.conn.enable_device() in the try block, then the return of the result
WrapperEnable ==
    /\ wrapper.pc = "enable"
    /\ \E ok \in BOOLEAN :
           wrapper' = [wrapper EXCEPT
                           !.enable_calls = @ + 1,
                           !.pc = IF ok THEN "returned" ELSE "except",
                           !.result = IF ok THEN "success" ELSE @,
                           !.error = IF ok THEN @ ELSE "enable_device"]
    /\ UNCHANGED simvars

\* "except Exception as e": self.conn.enable_device() again, outside any try,
\* then the return of {"success": False, "error": str(e)}
WrapperExcept ==
    /\ wrapper.pc = "except"
    /\ \E ok \in BOOLEAN :
           wrapper' = [wrapper EXCEPT
                           !.enable_calls = @ + 1,
                           !.pc = "returned",
                           !.result = IF ok THEN "failure" ELSE "raised"]
    /\ UNCHANGED simvars

\* The caller has the result
WrapperReturned ==
    /\ wrapper.pc = "returned"
    /\ wrapper' = [NewWrapper EXCEPT !.is_connected = wrapper.is_connected]
    /\ UNCHANGED simvars

NextWrapper ==
    \/ WrapperConnect
    \/ WrapperDisconnect
    \/ WrapperCall
    \/ WrapperDisable
    \/ WrapperDevice
    \/ WrapperEnable
    \/ WrapperExcept
    \/ WrapperReturned

SpecWrapper == Init /\ [][NextWrapper]_vars

\* C32: every PyZKWrapper data operation that disables the device, called while
\* connected, has called disable_device once and enable_device exactly once when
\* it returns, whether the device calls succeeded or any of them raised, and it
\* returns a JSON result instead of raising.
C32_DeviceReenabledOnce ==
    (wrapper.pc = "returned" /\ wrapper.is_connected) =>
        /\ wrapper.disable_calls = 1
        /\ wrapper.enable_calls = 1
        /\ wrapper.result \in { "success", "failure" }


----------------------------------------------------------------------------
(* Properties of the tasks that share a connection *)

\* C33: reads on a connection have exactly one consumer at any moment: the
\* request loop and an enrollment task are never both waiting in a read on the
\* connection, and no acknowledgment frame is dispatched as a command.
C33_SingleReader ==
    /\ ~(/\ conn = "open" /\ mainpc = "recv"
         /\ \E t \in 1..MaxTasks : tasks[t].live /\ tasks[t].pc = "recv")
    /\ ~(mainpc = "handle" /\ request = AckFrame)


\* conn.send(response) of the request loop has begun: the thread is inside the
\* call, with no lock held
MainWrites ==
    /\ mainpc = "send" /\ conn = "open"
    /\ mainpc' = "sending"
    /\ UNCHANGED << devvars, sessvars, enrvars, data_buffer, conn, inbox, request,
                    response, start_enrollment, mlocal, tasks, unacked, cfgvars, wrapper, netvars >>

\* conn.send(response) has returned; the enrollment thread is started if asked
MainWritten ==
    /\ mainpc = "sending"
    /\ mainpc' = "recv"
    /\ tasks' = (IF start_enrollment THEN [tasks EXCEPT ![FreeSlot] = NewTask] ELSE tasks)
    /\ request' = NoFrame
    /\ response' = NoFrame
    /\ start_enrollment' = FALSE
    /\ UNCHANGED << devvars, sessvars, enrvars, data_buffer, conn, inbox, mlocal,
                    unacked, cfgvars, wrapper, netvars >>

\* conn.send(event_packet) of enrollment thread t has begun
TaskWrites(t) ==
    /\ tasks[t].pc = "send" /\ tasks[t].live /\ conn = "open"
    /\ tasks' = [tasks EXCEPT ![t].pc = "sending"]
    /\ UNCHANGED << devvars, sessvars, enrvars, data_buffer, conn, inbox, mainpc,
                    request, response, start_enrollment, mlocal, unacked, cfgvars, wrapper, netvars >>

\* conn.send(event_packet) of enrollment thread t has returned
TaskWritten(t) ==
    /\ tasks[t].pc = "sending"
    /\ tasks' = [tasks EXCEPT ![t].pc = "recv", ![t].k = @ + 1]
    /\ unacked' = Min(unacked + 1, MaxUnacked)
    /\ UNCHANGED << devvars, sessvars, enrvars, data_buffer, conn, inbox, mainpc,
                    request, response, start_enrollment, mlocal, cfgvars, wrapper, netvars >>

\* The stream of thread t, its sends in two steps
EnrollmentWrites(t) ==
    \/ TaskWrites(t)
    \/ TaskWritten(t)
    \/ TaskRecv(t)
    \/ TaskBuild(t)
    \/ TaskFilter(t)
    \/ TaskAssign(t)
    \/ TaskAppend(t)
    \/ TaskCount(t)
    \/ TaskClear(t)

NextWrite ==
    \/ MainAccept
    \/ MainRecv
    \/ MainHandle
    \/ MainWrites
    \/ MainWritten
    \/ \E t \in 1..MaxTasks : EnrollmentWrites(t)
    \/ ClientStartEnroll(1, EnrollFids)
    \/ ClientAck

SpecWrite == Init /\ [][NextWrite]_vars

\* C34: writes to one connection are mutually exclusive: a response write by the
\* request loop and an event push by an enrollment task are never in progress at
\* the same time.
C34_WritesExclusive ==
    ~(mainpc = "sending" /\ \E t \in 1..MaxTasks : tasks[t].pc = "sending")


\* Fingers enrolled next to the uploaded template of finger 3
SerialFids == { 3, 4 }

NextSerial ==
    \/ MainAccept
    \/ MainRecv
    \/ MainHandle
    \/ MainBegin
    \/ MainFilter
    \/ MainAssign
    \/ MainAppend
    \/ MainCount
    \/ MainSend
    \/ \E t \in 1..MaxTasks : EnrollmentRuns(t)
    \/ ClientStartEnroll(1, SerialFids)
    \/ ClientAck
    \/ ClientDeleteUser
    \/ ClientData
    \/ ClientSaveUsertemps

SpecSerial == Init /\ [][NextSerial]_vars

\* C35: no update of the template set is lost. When DELETE USER has run to its
\* response, the templates left under its uid are at most the one an enrollment
\* thread stored under the current context's finger: in either serial order of
\* the deletion and the thread's store nothing else of that user survives.
C35_MutationsSerialized ==
    (mainpc = "send" /\ request.cmd = CMD_DELETE_USER /\ Len(request.data) >= 2) =>
        \A i \in 1..Len(templates) :
            templates[i].uid = U16(request.data, 0) => templates[i].fid = enrollment_fid


\* C36: once run() has closed a connection, no enrollment thread that was
\* started on it pushes an event or appends a template to self.templates.
C36_CloseCancelsEnrollment ==
    [][\A t \in 1..MaxTasks : (Busy(t) /\ ~tasks[t].live) => ~Pushes(t) /\ ~Stores(t)]_vars


----------------------------------------------------------------------------
(* A second client connects while run() serves the first.  sock.listen(5)     *)
(* completes its handshake and queues it; only the accept at the top of the   *)
(* outer loop takes it from the queue.                                        *)

\* The requests of the clients
AcceptFrames ==
    { Req(CMD_CONNECT, << >>), Req(CMD_GET_FREE_SIZES, << >>), Req(CMD_EXIT, << >>) }
        \cup { Req(CMD_USER_WRQ, d) : d \in UserWrqPayloads }

\* A second client connects while a connection is open
SecondConnects ==
    /\ conn = "open" /\ backlog.pc = "none"
    /\ backlog' = [pc |-> "queued", sent |-> << >>]
    /\ UNCHANGED << devvars, sessvars, enrvars, data_buffer, conn, mainpc, request,
                    response, start_enrollment, threadvars, cfgvars, wrapper, stream >>

\* and writes a request on its connection
SecondSends ==
    /\ backlog.pc = "queued" /\ Len(backlog.sent) < MaxInbox
    /\ \E f \in AcceptFrames : backlog' = [backlog EXCEPT !.sent = Append(@, f)]
    /\ UNCHANGED << devvars, sessvars, enrvars, data_buffer, conn, mainpc, request,
                    response, start_enrollment, threadvars, cfgvars, wrapper, stream >>

\* conn, addr = sock.accept() returns the queued connection
MainAcceptQueued ==
    /\ conn = "listening" /\ mainpc = "accept" /\ backlog.pc = "queued"
    /\ conn' = "open"
    /\ mainpc' = "recv"
    /\ inbox' = backlog.sent
    /\ unacked' = 0
    /\ backlog' = [backlog EXCEPT !.pc = "accepted"]
    /\ UNCHANGED << devvars, sessvars, enrvars, data_buffer, request, response,
                    start_enrollment, mlocal, tasks, cfgvars, wrapper, stream >>

\* A first client connects when none is queued
FirstConnects == backlog.pc = "none" /\ MainAccept

\* The client of the connection being served writes a request
ServedSends == \E f \in AcceptFrames : request.cmd # f.cmd /\ ClientSend(f)

\* The first client closes its end
FirstCloses == backlog.pc # "accepted" /\ ClientClose

NextAccept ==
    \/ FirstConnects
    \/ MainAcceptQueued
    \/ MainRecv
    \/ MainEof
    \/ MainHandle
    \/ MainSend
    \/ ServedSends
    \/ FirstCloses
    \/ SecondConnects
    \/ SecondSends

\* run() takes every step it can; no client is obliged to send or to close
SpecAccept ==
    /\ Init /\ [][NextAccept]_vars
    /\ WF_vars(MainAcceptQueued) /\ WF_vars(MainRecv) /\ WF_vars(MainEof)
    /\ WF_vars(MainHandle) /\ WF_vars(MainSend)

\* C37: a request written on a second connection is eventually answered, also
\* when the earlier connection stays open and its client sends nothing.
C37_SecondConnectionAnswered ==
    (backlog.pc = "queued" /\ backlog.sent # << >>)
        ~> (backlog.pc = "accepted" /\ mainpc = "recv" /\ inbox = << >>)


\* C38: at most one enrollment thread runs on a connection at any time, also
\* after a STARTENROLL that arrives while a stream is running.
C38_OneStreamPerConnection ==
    Cardinality({ t \in 1..MaxTasks : Busy(t) /\ tasks[t].live }) <= 1


\* C39: the finger a stream announces in its final REG_EVENT is the finger its
\* template is stored under, whatever the request loop handles while the stream
\* runs.
C39_StoredUnderAnnouncedFinger ==
    [][\A t \in 1..MaxTasks :
           Stores(t) => templates'[Len(templates')].fid = U16(tasks[t].event_data, 4)]_vars


----------------------------------------------------------------------------
(* The TCP byte stream.  A client writes whole frames; conn.recv(1024) returns *)
(* between one byte and 1024 bytes of what is pending, wherever the frames    *)
(* begin and end.                                                             *)

\* conn.recv(1024)
RECV_SIZE == 1024

\* Bound: the payload of a DATA chunk longer than one read
BulkSize == 1040

\* Bound: bytes pending when the client writes one more frame behind them
MaxStream == 48

\* Bound: the bytes a read returns when it returns less than a frame
StreamCut == 12

\* What a client writes: short requests, and a bulk upload announced by PREPARE
\* DATA whose DATA chunk does not fit one read
StreamFrames ==
    { Req(CMD_CONNECT, << >>), Req(CMD_GET_FREE_SIZES, << >>),
      Req(CMD_USER_WRQ, MkUser28(2, 14, Pw12345, NameBob, 7, 1, 22)),
      Req(CMD_PREPARE_DATA, Pack32(BulkSize)), Req(CMD_DATA, Zeros(BulkSize)) }

\* The client writes frame f
StreamWrites ==
    /\ conn = "open" /\ use_tcp
    /\ \E f \in StreamFrames :
           /\ stream = << >> \/ Len(stream) + Len(Wire(f)) <= MaxStream
           /\ f.cmd = CMD_DATA => data_buffer = << >>
           /\ stream' = stream \o Wire(f)
    /\ UNCHANGED << devvars, sessvars, enrvars, data_buffer, conn, mainpc, request,
                    response, start_enrollment, threadvars, cfgvars, wrapper, backlog >>

\* Where the first frame of bytes ends, by the length field of its envelope.  A
\* length of 65536 or more is beyond anything pending.
FrameEnd(bytes) ==
    IF Len(bytes) < 8 \/ U16(bytes, 6) > 0 THEN Len(bytes) + 1 ELSE 8 + U16(bytes, 4)

\* The byte counts a read of the pending bytes may return
ReadSizes(bytes) ==
    { n \in { StreamCut, FrameEnd(bytes), Len(bytes), RECV_SIZE } :
          n >= 1 /\ n <= Len(bytes) /\ n <= RECV_SIZE }

\* data = conn.recv(1024); handle_packet(data); conn.send(response) if there is one
StreamRead ==
    /\ conn = "open" /\ mainpc = "recv" /\ use_tcp
    /\ \E n \in ReadSizes(stream) :
           LET data == Slice(stream, 0, n)
               f == Parse(data)
           IN  /\ stream' = From(stream, n)
               /\ request' = f
               /\ IF f = NoFrame
                  THEN /\ response' = NoFrame
                       /\ start_enrollment' = FALSE
                       /\ UNCHANGED << devvars, sessvars, enrvars, data_buffer >>
                  ELSE handle_packet(f)
    /\ IF response' = Raised
       THEN conn' = "listening" /\ mainpc' = "accept"
       ELSE conn' = conn /\ mainpc' = mainpc
    /\ UNCHANGED << threadvars, cfgvars, wrapper, backlog >>

\* The client closes once everything it wrote has been read
StreamCloses == stream = << >> /\ Disconnect

NextStream ==
    \/ Accept
    \/ StreamCloses
    \/ StreamWrites
    \/ StreamRead

SpecStream == Init /\ [][NextStream]_vars

\* C40: every read of the request loop takes exactly the first pending frame, as
\* its envelope's length field delimits it, and dispatches that frame.
C40_FramesDelimitedByLength ==
    [][Len(stream') < Len(stream) =>
           /\ Len(stream) - Len(stream') = FrameEnd(stream)
           /\ request' = Parse(Slice(stream, 0, FrameEnd(stream)))]_vars

=============================================================================
